---- MODULE Spec2Model ----
(***************************************************************************)
(* Model of the Pipy agent runtime: the agent loop of pi_agent/loop.py     *)
(* (turn scheduling, tool dispatch, steering / follow-up injection), the   *)
(* AgentEventStream of pi_agent/events.py it publishes on, and the         *)
(* steering / follow-up queues and readers of pi_agent/agent.py.           *)
(*                                                                         *)
(* The runtime is single-threaded and cooperative.  The loop task is one   *)
(* coroutine; `pc` is its position.  Positions listed in SuspendedPcs are  *)
(* the awaits of the coroutine (other tasks may run there); every other    *)
(* position is straight-line code during which nothing else runs, so the   *)
(* consumer of the stream and the callers of steer / follow_up act only    *)
(* while the loop task is suspended or finished.                           *)
(***************************************************************************)
EXTENDS Integers, Sequences, FiniteSets, TLC

\* ------------------------------------------------------------------ bounds
MaxTurns == 2      \* provider requests per run
MaxCalls == 2      \* tool-call blocks per run
MaxStarts == 1     \* provider responses per run that begin with a start event
MaxDeltas == 1     \* streamed delta events per run
MaxSilent == 1     \* provider responses per run that end without done / error
MaxUpdates == 1    \* partial-update callbacks per run
MaxInjected == 1   \* messages returned by the steering / follow-up readers per run
MaxQueued == 3     \* messages handed to Agent.steer / Agent.follow_up
MaxPolls == 3      \* direct invocations of the Agent's queue readers
MaxRuns == 2       \* loops one Agent starts
MaxSteered == 1    \* messages queued on an Agent that runs loops
MaxPushes == 3     \* push calls on a stream object
MaxEnds == 2       \* end calls on a stream object
MaxWaiters == 1    \* result() calls on a stream object
MaxValue == 2      \* distinct terminal values
MaxLines == 3      \* lines a server sends on one response
MaxMessages == 4   \* messages in a list handed to transform_messages
MaxEntries == 3    \* entries of a session
MaxIds == 4        \* entry ids handed out in a session's life
MaxCompactions == 2    \* compaction entries in a session
MaxLabelEntries == 2   \* label entries in a session
MaxFileLines == 3      \* lines of a session file found on disk
MaxTokenSteps == 40    \* multiples of 500 tokens a caller asks for
MaxEnqueued == 2       \* messages queued on the Agent during one run of the loop
MaxCommands == 3       \* lines written to the stdin of the RPC bridge
MaxRpcRuns == 2        \* runs the RPC bridge starts
MaxRunSteps == 2       \* suspension points of a run before its agent_end
MaxChunks == 2         \* data lines of one chat-completions response
MaxToolCallDeltas == 2 \* entries of one chunk's tool_calls list

\* ------------------------------------------------------------- data model
NoMsg == [role |-> "none", id |-> 0, stop |-> "", calls |-> <<>>,
          callId |-> 0, isError |-> FALSE, text |-> ""]

UserMessage(id) == [NoMsg EXCEPT !.role = "user", !.id = id]

AssistantMessage(id, stop, calls, text) ==
    [NoMsg EXCEPT !.role = "assistant", !.id = id, !.stop = stop,
                  !.calls = calls, !.text = text]

ToolResultMessage(callId, isError, text) ==
    [NoMsg EXCEPT !.role = "tool_result", !.callId = callId,
                  !.isError = isError, !.text = text]

ToolCall(id, name) == [id |-> id, name |-> name]

ToolNames == {"echo", "nope"}
Tools == {"echo"}                  \* the tool list of the context

SkippedText == "Skipped due to queued user message."
NotFoundText == "Tool not found"
InvalidText == "validation error"
RaisedText == "tool raised"
OkText == "ok"

NoEvent == [type |-> "None", message |-> NoMsg, toolCallId |-> 0,
            isError |-> FALSE, text |-> "", toolResults |-> <<>>,
            messages |-> <<>>]

Event(type) == [NoEvent EXCEPT !.type = type]
MessageEvent(type, m) == [NoEvent EXCEPT !.type = type, !.message = m]
ToolStartEvent(call) ==
    [NoEvent EXCEPT !.type = "tool_execution_start", !.toolCallId = call.id]
ToolUpdateEvent(call) ==
    [NoEvent EXCEPT !.type = "tool_execution_update", !.toolCallId = call.id]
ToolEndEvent(call, isError, text) ==
    [NoEvent EXCEPT !.type = "tool_execution_end", !.toolCallId = call.id,
                    !.isError = isError, !.text = text]
TurnEndEvent(m, results) ==
    [NoEvent EXCEPT !.type = "turn_end", !.message = m, !.toolResults = results]
AgentEndEvent(msgs) ==
    [NoEvent EXCEPT !.type = "agent_end", !.messages = msgs]

\* --------------------------------------------------------------- variables
VARIABLES
    cfg,               \* the AgentLoopConfig / entry point of this run
    pc,                \* position of the loop task
    queue,             \* AgentEventStream._queue
    streamDone,        \* AgentEventStream._done
    streamResult,      \* AgentEventStream._result / _result_event
    delivered,         \* events the consumer has received from __anext__
    consumerStopped,   \* the consumer has seen StopAsyncIteration
    ctxMessages,       \* current_context.messages
    newMessages,       \* new_messages
    pendingMessages,   \* pending_messages
    firstTurn,         \* first_turn
    hasMoreToolCalls,  \* has_more_tool_calls
    steeringAfterTools,\* steering_after_tools
    message,           \* the assistant message of the current turn
    partialMessage,    \* partial_message
    addedPartial,      \* added_partial
    index,             \* position of _execute_tool_calls in tool_calls
    results,           \* results of _execute_tool_calls / tool_results
    toolOutcome,       \* (is_error, text) of the call being finished
    steeringQueue,     \* Agent._steering_queue
    followUpQueue,     \* Agent._follow_up_queue
    steeringMode,      \* Agent._steering_mode
    followUpMode,      \* Agent._follow_up_mode
    turn,              \* number of provider requests made
    starts,            \* start events received so far
    deltas,            \* delta events received so far
    silent,            \* responses that ended without done / error so far
    updates,           \* partial updates made so far
    injected,          \* messages returned by the run's readers so far
    enqueued,          \* messages handed to steer / follow_up so far
    lastPoll,          \* history: the last poll of an Agent queue reader
    polls,             \* history: every invocation of a reader
    requests,          \* history: message list of every provider request
    executed,          \* history: ids of the calls whose execute was invoked
    configAccepts,     \* AgentLoopConfig(...) accepts what Agent._run_loop passes
    is_streaming,      \* Agent._state.is_streaming
    stateMessages,     \* Agent._state.messages
    sessionLog,        \* messages handed to SessionManager.append_message
    pending_tool_calls,    \* Agent._state.pending_tool_calls
    runs,              \* the loops started by the Agent, with their streams
    lastCall,          \* history: outcome of the last send / continue_session
    signalSet,         \* config.signal (the asyncio.Event of the run) is set
    atAbort,           \* history: what had been done when the signal was set
    es,                \* an event stream object: class, _queue, _done, _result
    callLog,           \* history: every push and end call on es, in order
    taken,             \* events `async for` has yielded from es
    iterStopped,       \* the iteration over es has met StopAsyncIteration
    waiters,           \* the result() calls made on es
    providerPc,        \* where a provider's run() task stands
    wire,              \* lines the server has sent and run() has not read
    wireClosed,        \* the server has closed the response
    linesSent,         \* how many lines the server has sent
    tMessages,         \* the message list handed to transform_messages
    tNormalize,        \* the normalize_tool_call_id handed to it
    tPc,               \* "building", "once" or "twice"
    tOnce,             \* transform_messages(tMessages)
    tTwice,            \* transform_messages(tOnce)
    sEntries,          \* SessionManager: the entries after the header
    sLeaf,             \* _leaf_id
    sLabels,           \* _labels_by_id
    sNextId,           \* the next id _generate_id hands out
    sLast,             \* the last call and whether it raised
    sBefore,           \* path and labels a create_branched_session met
    sFile,             \* the session file on disk: whether it is there, its lines
    sFlushed,          \* _flushed
    sHeader,           \* the SessionHeader at the front of _file_entries
    sLoaded,           \* what load_entries_from_file gave the last open
    opt,               \* the last call of adjust_max_tokens_for_thinking
    parser,            \* stream_openai_completions.run after its start event
    rpc                \* the RPC bridge: stdin, _read_lines and its Agent

vars == <<cfg, pc, queue, streamDone, streamResult, delivered,
          consumerStopped, ctxMessages, newMessages, pendingMessages,
          firstTurn, hasMoreToolCalls, steeringAfterTools, message,
          partialMessage, addedPartial, index, results, toolOutcome,
          steeringQueue, followUpQueue, steeringMode, followUpMode, turn,
          starts, deltas, silent, updates, injected, enqueued, lastPoll,
          polls, requests, executed, configAccepts, is_streaming,
          stateMessages, sessionLog, pending_tool_calls, runs, lastCall,
          signalSet, atAbort, es,
          callLog, taken, iterStopped, waiters, providerPc, wire,
          wireClosed, linesSent, tMessages, tNormalize, tPc, tOnce, tTwice,
          sEntries, sLeaf, sLabels, sNextId, sLast, sBefore, sFile, sFlushed,
          sHeader, sLoaded, opt, parser, rpc>>

streamVars == <<queue, streamDone, streamResult>>
consumerVars == <<delivered, consumerStopped>>
turnVars == <<firstTurn, hasMoreToolCalls, steeringAfterTools, pendingMessages>>
responseVars == <<message, partialMessage, addedPartial>>
toolVars == <<index, results, toolOutcome>>
loopVars == <<ctxMessages, newMessages, turnVars, responseVars, toolVars>>
agentVars == <<steeringQueue, followUpQueue, steeringMode, followUpMode,
               enqueued, lastPoll>>
counterVars == <<turn, starts, deltas, silent, updates, injected>>
historyVars == <<polls, requests, executed>>
facadeVars == <<configAccepts, is_streaming, stateMessages, sessionLog,
                pending_tool_calls, runs,
                lastCall>>
signalVars == <<signalSet, atAbort>>
objectVars == <<es, callLog, taken, iterStopped, waiters>>
\* the state of the components no step of the loop or of the Agent touches
providerVars == <<providerPc, wire, wireClosed, linesSent>>
transformVars == <<tMessages, tNormalize, tPc, tOnce, tTwice>>
\* the state of the pure functions and of the session manager
sessionVars == <<sEntries, sLeaf, sLabels, sNextId, sLast, sBefore>>
sessionVarsButLast == <<sEntries, sLeaf, sLabels, sNextId, sBefore>>
storeVars == <<sFile, sFlushed, sHeader, sLoaded>>
managerVars == <<sessionVars, storeVars>>
\* the state of the helpers of the providers and of the RPC bridge
utilVars == <<opt, parser, rpc>>
apartVars == <<transformVars, managerVars, utilVars>>
restVars == <<signalVars, objectVars, providerVars, apartVars>>
\* the state of the loop, of its stream and of the Agent
programSide == <<cfg, pc, streamVars, consumerVars, loopVars, agentVars,
                 counterVars, historyVars, facadeVars, providerVars,
                 utilVars>>
agentSide == <<cfg, pc, streamVars, consumerVars, loopVars, agentVars,
               counterVars, historyVars, facadeVars, apartVars>>
loopSide == <<agentSide, providerVars>>

SuspendedPcs == {"start", "poll_initial", "request", "streaming",
                 "tool_exec", "poll_tool", "poll_turn", "poll_follow"}
FinishedPcs == {"ended", "crashed", "hung"}
NoRunPc == "idle"                  \* no run has been started

LoopIdle == pc \in SuspendedPcs \cup FinishedPcs

Modes == {"one-at-a-time", "all"}

\* ------------------------------------------------------- AgentEventStream
\* push(event): no-op after end
push(q, done, event) == IF done THEN q ELSE Append(q, event)

RECURSIVE pushAll(_, _, _)
pushAll(q, done, events) ==
    IF events = <<>> THEN q
    ELSE pushAll(push(q, done, Head(events)), done, Tail(events))

NoResult == [set |-> FALSE, value |-> <<>>]

\* end(messages): the sentinel is put on the queue once
endQueue(q, done) == IF done THEN q ELSE Append(q, NoEvent)

\* end(messages) with messages not None: _result and _result_event
endResult(messages) == [set |-> TRUE, value |-> messages]

\* ------------------------------------- the two stream classes as objects
\* AgentEventStream (pi_agent/events.py) and AssistantMessageEventStream
\* (pi_ai/streaming.py).  None is 0; an item is [type, value], value being
\* the message of a done / error event.
None == 0

EndOfStream == [type |-> "None", value |-> None]

StreamClasses == {"AgentEventStream", "AssistantMessageEventStream"}

\* __init__ of both classes
NewStream(class) ==
    [class |-> class, queue |-> <<>>, done |-> FALSE, result |-> NoResult]

\* AssistantMessageEventStream._set_result (streaming.py 43-46)
SetResult(st, v) ==
    IF st.result.set THEN st ELSE [st EXCEPT !.result = endResult(v)]

\* the way a supplied terminal value is stored: AgentEventStream.end assigns
\* (events.py 24-26), AssistantMessageEventStream goes through _set_result
StoreResult(st, v) ==
    IF st.class = "AgentEventStream"
    THEN [st EXCEPT !.result = endResult(v)]
    ELSE SetResult(st, v)

\* streaming.py 23-27: a done / error event carries the terminal value
NoteTerminal(st, e) ==
    IF /\ st.class = "AssistantMessageEventStream"
       /\ e.type \in {"done", "error"}
       /\ e.value # None
    THEN SetResult(st, e.value) ELSE st

\* a push that does not look at _done
StreamPushAfterEnd(st, e) ==
    [NoteTerminal(st, e) EXCEPT !.queue = Append(@, e)]

\* push of both classes (events.py 18-21, streaming.py 20-28)
StreamPush(st, e) ==
    IF st.done THEN st
    ELSE [NoteTerminal(st, e) EXCEPT !.queue = push(st.queue, st.done, e)]

\* end of both classes (events.py 23-29, streaming.py 30-35)
StreamEnd(st, v) ==
    LET stored == IF v # None THEN StoreResult(st, v) ELSE st
    IN  IF stored.done THEN stored
        ELSE [stored EXCEPT !.done = TRUE, !.queue = Append(@, EndOfStream)]

\* ---------------------------------------------------------------- helpers
RECURSIVE Flatten(_)
Flatten(ss) == IF ss = <<>> THEN <<>> ELSE Head(ss) \o Flatten(Tail(ss))

MessagePair(m) == <<MessageEvent("message_start", m), MessageEvent("message_end", m)>>

\* the events pushed for a list of injected messages
InjectEvents(ms) == Flatten([i \in 1..Len(ms) |-> MessagePair(ms[i])])

PreExisting == <<UserMessage(100)>>
Prompts == <<UserMessage(101)>>

\* ------------------------------------------- readers handed to the loop
\* config.get_steering_messages / get_follow_up_messages are callbacks:
\* what one invocation can return (fresh user messages, possibly none)
ReaderReturns ==
    {[i \in 1..n |-> UserMessage(200 + injected + i)] :
        n \in 0..(MaxInjected - injected)}

\* history record of one invocation of a reader by the loop: where the loop
\* stood (turn, assistant message, call index, pending messages, events
\* pushed so far) and what the reader returned
Poll(reader, point, returned) ==
    [reader |-> reader, point |-> point, returned |-> returned,
     turn |-> turn, message |-> message, index |-> index,
     pending |-> pendingMessages, at |-> Len(delivered) + Len(queue)]

\* --------------------------------------------------- readers of the Agent
\* a one-at-a-time poll that returned the newest message of the queue
ReaderReturnNewest(q, mode) ==
    IF mode = "one-at-a-time"
    THEN IF q # <<>> THEN <<q[Len(q)]>> ELSE <<>>
    ELSE q

\* _build_steering_reader._reader / _build_follow_up_reader._reader
ReaderReturn(q, mode) ==
    IF mode = "one-at-a-time"
    THEN IF q # <<>> THEN <<Head(q)>> ELSE <<>>
    ELSE q

\* an "all" poll that returned a copy and left the queue as it was
ReaderRemainingKeepsAll(q, mode) ==
    IF mode = "one-at-a-time"
    THEN IF q # <<>> THEN Tail(q) ELSE <<>>
    ELSE q

ReaderRemaining(q, mode) ==
    IF mode = "one-at-a-time"
    THEN IF q # <<>> THEN Tail(q) ELSE <<>>
    ELSE <<>>

NoPoll == [n |-> 0, reader |-> "none", mode |-> "", before |-> <<>>,
           returned |-> <<>>]

NoCall == [op |-> "none", outcome |-> "", active |-> 0]

NotAborted == [executed |-> 0, requests |-> 0, events |-> 0, pc |-> ""]

\* ------------------------------------------------------------------- Init
Configs == [entry : {"agent_loop", "agent_loop_continue"},
            hasSteering : BOOLEAN,
            hasFollowUp : BOOLEAN,
            hasRetryDelay : BOOLEAN]

\* tool-call ids, and a normalize_tool_call_id that changes none
Ids == {"a", "b"}

KeepIds == [id \in Ids |-> id]

\* the stream object of the stream specifications, unused elsewhere
UnusedStream == NewStream("AgentEventStream")

\* adjust_max_tokens_for_thinking has not been called
NotAdjusted ==
    [asked |-> FALSE, called |-> FALSE, base_max_tokens |-> 0, model_max_tokens |-> 0,
     reasoning_level |-> "", custom_budgets |-> "None", max_tokens |-> 0,
     thinking_budget |-> 0]

\* run() has pushed its start event: output.content is empty, current_block
\* is None, current_tool_args is "".  calls and callOpen follow the
\* tool-calls the server streams: their id and the first name sent for each,
\* and whether the last delta read belonged to one
ParserStart ==
    [content |-> <<>>, hasCurrent |-> FALSE, current_tool_args |-> <<>>,
     stop_reason |-> "stop", pushed |-> <<>>, chunks |-> 0, done |-> FALSE,
     calls |-> <<>>, callOpen |-> FALSE]

\* _read_lines has created its Agent and waits for the first line of stdin.
\* arrived counts the lines written to stdin, handled lists the commands
\* dispatched with what was the case when each arrived and was dispatched
RpcStart ==
    [stdin |-> <<>>, reader |-> "stdin", runs |-> <<>>,
     is_streaming |-> FALSE, steering |-> <<>>, followUp |-> <<>>,
     arrived |-> 0, handled |-> <<>>]

InitCommon ==
    /\ queue = <<>>
    /\ streamDone = FALSE
    /\ streamResult = NoResult
    /\ delivered = <<>>
    /\ consumerStopped = FALSE
    /\ ctxMessages = <<>>
    /\ newMessages = <<>>
    /\ pendingMessages = <<>>
    /\ firstTurn = TRUE
    /\ hasMoreToolCalls = TRUE
    /\ steeringAfterTools = <<>>
    /\ message = NoMsg
    /\ partialMessage = NoMsg
    /\ addedPartial = FALSE
    /\ index = 0
    /\ results = <<>>
    /\ toolOutcome = [isError |-> FALSE, text |-> ""]
    /\ steeringQueue = <<>>
    /\ followUpQueue = <<>>
    /\ turn = 0
    /\ starts = 0
    /\ deltas = 0
    /\ silent = 0
    /\ updates = 0
    /\ injected = 0
    /\ enqueued = 0
    /\ lastPoll = NoPoll
    /\ polls = <<>>
    /\ requests = <<>>
    /\ executed = <<>>
    /\ is_streaming = FALSE
    /\ stateMessages = <<>>
    /\ sessionLog = <<>>
    /\ pending_tool_calls = {}
    /\ runs = <<>>
    /\ lastCall = NoCall
    /\ signalSet = FALSE
    /\ atAbort = NotAborted
    /\ callLog = <<>>
    /\ taken = <<>>
    /\ iterStopped = FALSE
    /\ waiters = <<>>
    /\ providerPc = "idle"
    /\ wire = <<>>
    /\ wireClosed = FALSE
    /\ linesSent = 0
    /\ tMessages = <<>>
    /\ tPc = "building"
    /\ tOnce = <<>>
    /\ tTwice = <<>>
    /\ sEntries = <<>>
    /\ sLeaf = None
    /\ sLabels = <<>>
    /\ sNextId = 1
    /\ sLast = [op |-> "create", raised |-> FALSE]
    /\ sBefore = [path |-> <<>>, labels |-> <<>>]
    /\ sFile = [exists |-> FALSE, lines |-> <<>>]
    /\ sFlushed = FALSE
    /\ sHeader = [cwd |-> "cwd", version |-> 3, parentSession |-> "None"]
    /\ sLoaded = <<>>
    /\ opt = NotAdjusted
    /\ parser = ParserStart
    /\ rpc = RpcStart

\* agent_loop / agent_loop_continue has returned the stream; run() is a
\* task that has not run yet
Init ==
    /\ cfg \in Configs
    /\ configAccepts = FALSE
    /\ pc = "start"
    /\ steeringMode = "one-at-a-time"
    /\ followUpMode = "one-at-a-time"
    /\ es = UnusedStream
    /\ tNormalize = KeepIds
    /\ InitCommon

\* ------------------------------------------------------------ the consumer
\* The consumer task is scheduled: `async for event in stream` calls
\* AgentEventStream.__anext__ until the queue is empty (queue.get() does not
\* suspend while an item is available) or the sentinel is met.
Consume ==
    /\ LoopIdle
    /\ ~consumerStopped
    /\ queue # <<>>
    /\ queue' = <<>>
    /\ delivered' = delivered \o SelectSeq(queue, LAMBDA e : e # NoEvent)
    /\ consumerStopped' = (queue[Len(queue)] = NoEvent)
    /\ UNCHANGED <<cfg, restVars, facadeVars, pc, streamDone, streamResult, loopVars, agentVars,
                   counterVars, historyVars>>

\* --------------------------------------------------------------- the loop
\* An exception leaves run(): the task dies, nothing ends the stream.
Crash ==
    /\ pc' = "crashed"
    /\ UNCHANGED <<cfg, restVars, facadeVars, streamVars, consumerVars, loopVars, agentVars,
                   counterVars, historyVars>>

\* a loop whose inner while looked at has_more_tool_calls only
LoopCondIgnoringPending(hasMore, pending) ==
    IF hasMore THEN "turn_top"
    ELSE IF cfg.hasFollowUp THEN "poll_follow"
    ELSE "finish"

\* the condition of the inner while of _run_loop, then lines 177-186
LoopCond(hasMore, pending) ==
    IF hasMore \/ pending # <<>> THEN "turn_top"
    ELSE IF cfg.hasFollowUp THEN "poll_follow"
    ELSE "finish"

\* run() of agent_loop / agent_loop_continue up to the first await
RunStart ==
    /\ pc = "start"
    /\ IF cfg.entry = "agent_loop"
       THEN /\ newMessages' = Prompts
            /\ ctxMessages' = PreExisting \o Prompts
            /\ queue' = pushAll(queue, streamDone,
                   <<Event("agent_start"), Event("turn_start")>> \o InjectEvents(Prompts))
       ELSE /\ newMessages' = <<>>
            /\ ctxMessages' = PreExisting
            /\ queue' = pushAll(queue, streamDone,
                   <<Event("agent_start"), Event("turn_start")>>)
    /\ firstTurn' = TRUE
    /\ pendingMessages' = <<>>
    /\ pc' = IF cfg.hasSteering THEN "poll_initial" ELSE "turn_top"
    /\ UNCHANGED <<cfg, restVars, facadeVars, streamDone, streamResult, consumerVars, hasMoreToolCalls,
                   steeringAfterTools, responseVars, toolVars, agentVars,
                   counterVars, historyVars>>

\* _run_loop lines 117-121: the steering poll before the first turn
InitialPollReturns(steering) ==
    /\ pendingMessages' = steering
    /\ injected' = injected + Len(steering)
    /\ polls' = Append(polls, Poll("steering", "initial", steering))
    /\ pc' = "turn_top"
    /\ UNCHANGED <<cfg, restVars, facadeVars, streamVars, consumerVars, ctxMessages, newMessages,
                   firstTurn, hasMoreToolCalls, steeringAfterTools,
                   responseVars, toolVars, turn, starts,
                   deltas, silent, updates, requests, executed>>

PollInitial ==
    /\ pc = "poll_initial"
    /\ \/ Crash
       \/ \E steering \in ReaderReturns :
          /\ InitialPollReturns(steering)
          /\ UNCHANGED agentVars

\* _run_loop lines 128-139: turn_start and injection of pending messages
TurnTop ==
    /\ pc = "turn_top"
    /\ queue' = pushAll(queue, streamDone,
           (IF firstTurn THEN <<>> ELSE <<Event("turn_start")>>)
           \o InjectEvents(pendingMessages))
    /\ firstTurn' = FALSE
    /\ ctxMessages' = ctxMessages \o pendingMessages
    /\ newMessages' = newMessages \o pendingMessages
    /\ pendingMessages' = <<>>
    /\ pc' = "request"
    /\ UNCHANGED <<cfg, restVars, facadeVars, streamDone, streamResult, consumerVars, hasMoreToolCalls,
                   steeringAfterTools, responseVars, toolVars, agentVars,
                   counterVars, historyVars>>

\* _stream_assistant_response lines 195-236: key resolver, context
\* transform, convert_to_llm, the options record (which reads
\* config.max_retry_delay_ms), the stream factory
Request ==
    /\ pc = "request"
    /\ turn < MaxTurns
    /\ \E callbacksRaise \in BOOLEAN :
         IF callbacksRaise \/ ~cfg.hasRetryDelay
         THEN Crash
         ELSE /\ requests' = Append(requests, ctxMessages)
              /\ turn' = turn + 1
              /\ partialMessage' = NoMsg
              /\ addedPartial' = FALSE
              /\ pc' = "streaming"
              /\ UNCHANGED <<cfg, restVars, facadeVars, streamVars, consumerVars, ctxMessages,
                             newMessages, turnVars, message, toolVars, agentVars,
                             starts, deltas, silent, updates, injected, polls,
                             executed>>

\* ------------------------------------------------- the provider's response
\* the tool-call blocks requested so far in the run
CallsSoFar == Len(Flatten([i \in 1..Len(newMessages) |-> newMessages[i].calls]))

CallSeqs(t) ==
    UNION {{[i \in 1..n |-> ToolCall(10 * t + i, f[i])] : f \in [1..n -> ToolNames]}
           : n \in 0..(MaxCalls - CallsSoFar)}

\* the terminal assistant messages a provider can deliver in turn t
FinalMessages(t) ==
    {AssistantMessage(t, "stop", <<>>, "final")}
    \cup {AssistantMessage(t, "toolUse", calls, "final") : calls \in CallSeqs(t) \ {<<>>}}
    \cup {AssistantMessage(t, s, calls, "final") :
            s \in {"error", "aborted"},
            calls \in {<<>>, <<ToolCall(10 * t + 1, "echo")>>} \cap CallSeqs(t)}

\* the terminal values of a response that ends without a done / error event
EndedMessages(t) ==
    {m \in FinalMessages(t) :
        \A i \in 1..Len(m.calls) : m.calls[i].name = "echo"}

ReplaceLast(ms, m) == [ms EXCEPT ![Len(ms)] = m]

\* _stream_assistant_response lines 240-245: the "start" event
ProviderStart ==
    /\ pc = "streaming"
    /\ ~addedPartial
    /\ starts < MaxStarts
    /\ starts' = starts + 1
    /\ LET partial == AssistantMessage(turn, "", <<>>, "partial") IN
         /\ partialMessage' = partial
         /\ ctxMessages' = Append(ctxMessages, partial)
         /\ addedPartial' = TRUE
         /\ queue' = push(queue, streamDone, MessageEvent("message_start", partial))
    /\ UNCHANGED <<cfg, restVars, facadeVars, pc, streamDone, streamResult, consumerVars, newMessages,
                   turnVars, message, toolVars, agentVars, turn, deltas, silent,
                   updates, injected, historyVars>>

\* _stream_assistant_response lines 247-268: a text / thinking / toolcall
\* delta; it is dropped when no "start" came before it
ProviderDelta ==
    /\ pc = "streaming"
    /\ deltas < MaxDeltas
    /\ IF partialMessage # NoMsg
       THEN LET partial == [partialMessage EXCEPT !.text = "delta"] IN
              /\ partialMessage' = partial
              /\ ctxMessages' = ReplaceLast(ctxMessages, partial)
              /\ queue' = push(queue, streamDone, MessageEvent("message_update", partial))
              /\ deltas' = deltas + 1
       ELSE UNCHANGED <<partialMessage, ctxMessages, queue, deltas>>
    /\ UNCHANGED <<cfg, restVars, facadeVars, pc, streamDone, streamResult, consumerVars, newMessages,
                   turnVars, message, addedPartial, toolVars, agentVars, turn,
                   starts, silent, updates, injected, historyVars>>

\* _stream_assistant_response lines 270-278: the "done" / "error" event
ProviderTerminal ==
    /\ pc = "streaming"
    /\ \E final \in FinalMessages(turn) :
         /\ message' = final
         /\ IF addedPartial
            THEN /\ ctxMessages' = ReplaceLast(ctxMessages, final)
                 /\ queue' = push(queue, streamDone, MessageEvent("message_end", final))
            ELSE /\ ctxMessages' = Append(ctxMessages, final)
                 /\ queue' = pushAll(queue, streamDone, MessagePair(final))
    /\ pc' = "after_message"
    /\ UNCHANGED <<cfg, restVars, facadeVars, streamDone, streamResult, consumerVars, newMessages,
                   turnVars, partialMessage, addedPartial, toolVars, agentVars,
                   counterVars, historyVars>>

\* _stream_assistant_response line 280: the response was ended without a
\* done / error event; result() returns the terminal value if end() set
\* one and otherwise never completes
ProviderEndsWithoutTerminal ==
    /\ pc = "streaming"
    /\ silent < MaxSilent
    /\ silent' = silent + 1
    /\ \/ /\ \E final \in EndedMessages(turn) : message' = final
          /\ pc' = "after_message"
       \/ /\ pc' = "hung"
          /\ UNCHANGED message
    /\ UNCHANGED <<cfg, restVars, facadeVars, streamVars, consumerVars, ctxMessages, newMessages,
                   turnVars, partialMessage, addedPartial, toolVars, agentVars,
                   turn, starts, deltas, updates, injected, historyVars>>

\* _run_loop line 144: the stop reasons that end the run
StopsRunOnlyOnError(m) == m.stop \in {"error"}

StopsRun(m) == m.stop \in {"error", "aborted"}

\* _run_loop lines 142-161: commit the assistant message, stop on
\* error / aborted, otherwise collect its tool calls
AfterMessage ==
    /\ pc = "after_message"
    /\ newMessages' = Append(newMessages, message)
    /\ IF StopsRun(message)
       THEN /\ queue' = endQueue(pushAll(queue, streamDone,
                   <<TurnEndEvent(message, <<>>), AgentEndEvent(newMessages')>>),
                   streamDone)
            /\ streamResult' = endResult(newMessages')
            /\ streamDone' = TRUE
            /\ pc' = "ended"
            /\ UNCHANGED <<hasMoreToolCalls, index, results, steeringAfterTools>>
       ELSE /\ hasMoreToolCalls' = (message.calls # <<>>)
            /\ results' = <<>>
            /\ index' = IF message.calls # <<>> THEN 1 ELSE 0
            /\ pc' = IF message.calls # <<>> THEN "tool_begin" ELSE "turn_end"
            /\ steeringAfterTools' =
                   IF message.calls # <<>> THEN <<>> ELSE steeringAfterTools
            /\ UNCHANGED streamVars
    /\ UNCHANGED <<cfg, restVars, facadeVars, consumerVars, ctxMessages, pendingMessages, firstTurn,
                   responseVars, toolOutcome, agentVars, counterVars, historyVars>>

\* ------------------------------------------------------ _execute_tool_calls
CurrentCall == message.calls[index]

\* a batch that stopped at the first failed call
AdvanceUnlessFailed ==
    IF index < Len(message.calls) /\ ~toolOutcome.isError
    THEN "tool_begin" ELSE "turn_end"

\* the position after call `index` is finished and no steering arrived
Advance == IF index < Len(message.calls) THEN "tool_begin" ELSE "turn_end"

AdvanceIndex == IF index < Len(message.calls) THEN index + 1 ELSE index

\* lines 302-319: tool_execution_start, lookup by name, argument validation
ToolBegin ==
    /\ pc = "tool_begin"
    /\ queue' = push(queue, streamDone, ToolStartEvent(CurrentCall))
    /\ IF CurrentCall.name \notin Tools
       THEN /\ toolOutcome' = [isError |-> TRUE, text |-> NotFoundText]
            /\ pc' = "tool_finish"
            /\ UNCHANGED executed
       ELSE \E valid \in BOOLEAN :
              IF valid
              THEN /\ executed' = Append(executed, CurrentCall.id)
                   /\ pc' = "tool_exec"
                   /\ UNCHANGED toolOutcome
              ELSE /\ toolOutcome' = [isError |-> TRUE, text |-> InvalidText]
                   /\ pc' = "tool_finish"
                   /\ UNCHANGED executed
    /\ UNCHANGED <<cfg, restVars, facadeVars, streamDone, streamResult, consumerVars, ctxMessages,
                   newMessages, turnVars, responseVars, index, results, agentVars,
                   counterVars, polls, requests>>

\* lines 324-332: the partial-update callback handed to execute
ToolUpdate ==
    /\ pc = "tool_exec"
    /\ updates < MaxUpdates
    /\ updates' = updates + 1
    /\ queue' = push(queue, streamDone, ToolUpdateEvent(CurrentCall))
    /\ UNCHANGED <<cfg, restVars, facadeVars, pc, streamDone, streamResult, consumerVars, loopVars,
                   agentVars, turn, starts, deltas, silent, injected,
                   historyVars>>

\* line 320: execute returned
ToolReturn ==
    /\ pc = "tool_exec"
    /\ toolOutcome' = [isError |-> FALSE, text |-> OkText]
    /\ pc' = "tool_finish"
    /\ UNCHANGED <<cfg, restVars, facadeVars, streamVars, consumerVars, ctxMessages, newMessages,
                   turnVars, responseVars, index, results, agentVars,
                   counterVars, historyVars>>

\* lines 334-336: execute raised
ToolRaise ==
    /\ pc = "tool_exec"
    /\ toolOutcome' = [isError |-> TRUE, text |-> RaisedText]
    /\ pc' = "tool_finish"
    /\ UNCHANGED <<cfg, restVars, facadeVars, streamVars, consumerVars, ctxMessages, newMessages,
                   turnVars, responseVars, index, results, agentVars,
                   counterVars, historyVars>>

\* the events of one finished call (lines 338-358)
FinishEvents(call, outcome) ==
    <<ToolEndEvent(call, outcome.isError, outcome.text)>>
    \o MessagePair(ToolResultMessage(call.id, outcome.isError, outcome.text))

\* lines 338-360: tool_execution_end, the tool-result message and its events
ToolFinish ==
    /\ pc = "tool_finish"
    /\ queue' = pushAll(queue, streamDone, FinishEvents(CurrentCall, toolOutcome))
    /\ results' = Append(results,
           ToolResultMessage(CurrentCall.id, toolOutcome.isError, toolOutcome.text))
    /\ IF cfg.hasSteering
       THEN pc' = "poll_tool" /\ UNCHANGED index
       ELSE pc' = Advance /\ index' = AdvanceIndex
    /\ UNCHANGED <<cfg, restVars, facadeVars, streamDone, streamResult, consumerVars, ctxMessages,
                   newMessages, turnVars, responseVars, toolOutcome, agentVars,
                   counterVars, historyVars>>

\* a skip that reported the end of the call without its start
SkipEventsWithoutStart(call) ==
    FinishEvents(call, [isError |-> TRUE, text |-> SkippedText])

\* _skip_tool_call (lines 370-400): events of one skipped call
SkipEvents(call) ==
    <<ToolStartEvent(call)>>
    \o FinishEvents(call, [isError |-> TRUE, text |-> SkippedText])

SkipResult(call) == ToolResultMessage(call.id, TRUE, SkippedText)

\* a slice that lost the call right after the interrupted one
RemainingButOne == SubSeq(message.calls, index + 2, Len(message.calls))

\* line 364: tool_calls[index + 1:], the calls steering cuts off
Remaining == SubSeq(message.calls, index + 1, Len(message.calls))

\* lines 360-366: the steering poll after a finished call
AfterToolPollReturns(steering) ==
    /\ injected' = injected + Len(steering)
    /\ polls' = Append(polls, Poll("steering", "after_tool", steering))
    /\ IF steering # <<>>
       THEN /\ steeringAfterTools' = steering
            /\ queue' = pushAll(queue, streamDone,
                   Flatten([i \in 1..Len(Remaining) |-> SkipEvents(Remaining[i])]))
            /\ results' = results \o [i \in 1..Len(Remaining) |-> SkipResult(Remaining[i])]
            /\ pc' = "turn_end"
            /\ UNCHANGED index
       ELSE /\ pc' = Advance
            /\ index' = AdvanceIndex
            /\ UNCHANGED <<steeringAfterTools, queue, results>>
    /\ UNCHANGED <<cfg, restVars, facadeVars, streamDone, streamResult, consumerVars, ctxMessages,
                   newMessages, pendingMessages, firstTurn, hasMoreToolCalls,
                   responseVars, toolOutcome, turn, starts,
                   deltas, silent, updates, requests, executed>>

PollAfterTool ==
    /\ pc = "poll_tool"
    /\ \/ Crash
       \/ \E steering \in ReaderReturns :
          /\ AfterToolPollReturns(steering)
          /\ UNCHANGED agentVars

\* ---------------------------------------------------- end of turn, end of run
\* a loop that polled steering at the end of every turn
PollsAtEveryTurnEnd == cfg.hasSteering

\* lines 171-174: the reader is polled at the end of the turn unless the
\* tool phase already took steering messages
PollsAtTurnEnd == steeringAfterTools = <<>> /\ cfg.hasSteering

\* _run_loop lines 162-175: commit the tool-results, turn_end, steering
TurnEnd ==
    /\ pc = "turn_end"
    /\ ctxMessages' = ctxMessages \o results
    /\ newMessages' = newMessages \o results
    /\ queue' = push(queue, streamDone, TurnEndEvent(message, results))
    /\ IF PollsAtTurnEnd
       THEN /\ pc' = "poll_turn"
            /\ UNCHANGED <<pendingMessages, steeringAfterTools>>
       ELSE IF steeringAfterTools # <<>>
       THEN /\ pendingMessages' = steeringAfterTools
            /\ steeringAfterTools' = <<>>
            /\ pc' = LoopCond(hasMoreToolCalls, steeringAfterTools)
       ELSE /\ pc' = LoopCond(hasMoreToolCalls, pendingMessages)
            /\ UNCHANGED <<pendingMessages, steeringAfterTools>>
    /\ UNCHANGED <<cfg, restVars, facadeVars, streamDone, streamResult, consumerVars, firstTurn,
                   hasMoreToolCalls, responseVars, toolVars, agentVars,
                   counterVars, historyVars>>

\* _run_loop lines 174-175: the steering poll at the end of a turn
EndOfTurnPollReturns(steering) ==
    /\ injected' = injected + Len(steering)
    /\ polls' = Append(polls, Poll("steering", "end_of_turn", steering))
    /\ pendingMessages' = steering
    /\ pc' = LoopCond(hasMoreToolCalls, steering)
    /\ UNCHANGED <<cfg, restVars, facadeVars, streamVars, consumerVars, ctxMessages, newMessages,
                   firstTurn, hasMoreToolCalls, steeringAfterTools,
                   responseVars, toolVars, turn, starts,
                   deltas, silent, updates, requests, executed>>

PollEndOfTurn ==
    /\ pc = "poll_turn"
    /\ \/ Crash
       \/ \E steering \in ReaderReturns :
          /\ EndOfTurnPollReturns(steering)
          /\ UNCHANGED agentVars

\* _run_loop lines 177-183: the follow-up poll
FollowUpPollReturns(followUp) ==
    /\ injected' = injected + Len(followUp)
    /\ polls' = Append(polls, Poll("follow_up", "after_turn", followUp))
    /\ IF followUp # <<>>
       THEN /\ pendingMessages' = followUp
            /\ hasMoreToolCalls' = TRUE
            /\ steeringAfterTools' = <<>>
            /\ pc' = "turn_top"
       ELSE /\ pc' = "finish"
            /\ UNCHANGED <<pendingMessages, hasMoreToolCalls, steeringAfterTools>>
    /\ UNCHANGED <<cfg, restVars, facadeVars, streamVars, consumerVars, ctxMessages, newMessages,
                   firstTurn, responseVars, toolVars, turn,
                   starts, deltas, silent, updates, requests, executed>>

PollFollowUp ==
    /\ pc = "poll_follow"
    /\ \/ Crash
       \/ \E followUp \in ReaderReturns :
          /\ FollowUpPollReturns(followUp)
          /\ UNCHANGED agentVars

\* _run_loop lines 185-186: agent_end and end of the stream
Finish ==
    /\ pc = "finish"
    /\ queue' = endQueue(push(queue, streamDone, AgentEndEvent(newMessages)), streamDone)
    /\ streamResult' = endResult(newMessages)
    /\ streamDone' = TRUE
    /\ pc' = "ended"
    /\ UNCHANGED <<cfg, restVars, facadeVars, consumerVars, loopVars, agentVars, counterVars,
                   historyVars>>

\* -------------------------------------------------- the Agent's two queues
\* Agent.steer
steer ==
    /\ enqueued < MaxQueued
    /\ steeringQueue' = Append(steeringQueue, UserMessage(300 + enqueued))
    /\ enqueued' = enqueued + 1
    /\ UNCHANGED <<cfg, restVars, facadeVars, pc, streamVars, consumerVars, loopVars, followUpQueue,
                   steeringMode, followUpMode, lastPoll, counterVars, historyVars>>

\* Agent.follow_up
follow_up ==
    /\ enqueued < MaxQueued
    /\ followUpQueue' = Append(followUpQueue, UserMessage(300 + enqueued))
    /\ enqueued' = enqueued + 1
    /\ UNCHANGED <<cfg, restVars, facadeVars, pc, streamVars, consumerVars, loopVars, steeringQueue,
                   steeringMode, followUpMode, lastPoll, counterVars, historyVars>>

\* Agent.set_steering_mode
set_steering_mode ==
    /\ \E mode \in Modes : steeringMode' = mode
    /\ UNCHANGED <<cfg, restVars, facadeVars, pc, streamVars, consumerVars, loopVars, steeringQueue,
                   followUpQueue, followUpMode, enqueued, lastPoll, counterVars,
                   historyVars>>

\* Agent.set_follow_up_mode
set_follow_up_mode ==
    /\ \E mode \in Modes : followUpMode' = mode
    /\ UNCHANGED <<cfg, restVars, facadeVars, pc, streamVars, consumerVars, loopVars, steeringQueue,
                   followUpQueue, steeringMode, enqueued, lastPoll, counterVars,
                   historyVars>>

\* one call of the reader built by Agent._build_steering_reader
steering_reader ==
    /\ lastPoll.n < MaxPolls
    /\ steeringQueue' = ReaderRemaining(steeringQueue, steeringMode)
    /\ lastPoll' = [n |-> lastPoll.n + 1, reader |-> "steering",
                    mode |-> steeringMode, before |-> steeringQueue,
                    returned |-> ReaderReturn(steeringQueue, steeringMode)]
    /\ UNCHANGED <<cfg, restVars, facadeVars, pc, streamVars, consumerVars, loopVars, followUpQueue,
                   steeringMode, followUpMode, enqueued, counterVars, historyVars>>

\* one call of the reader built by Agent._build_follow_up_reader
follow_up_reader ==
    /\ lastPoll.n < MaxPolls
    /\ followUpQueue' = ReaderRemaining(followUpQueue, followUpMode)
    /\ lastPoll' = [n |-> lastPoll.n + 1, reader |-> "follow_up",
                    mode |-> followUpMode, before |-> followUpQueue,
                    returned |-> ReaderReturn(followUpQueue, followUpMode)]
    /\ UNCHANGED <<cfg, restVars, facadeVars, pc, streamVars, consumerVars, loopVars, steeringQueue,
                   steeringMode, followUpMode, enqueued, counterVars, historyVars>>

\* an Agent after __init__: both queues empty, the modes as constructed
QueueInit ==
    /\ cfg = [entry |-> "agent_loop", hasSteering |-> TRUE,
              hasFollowUp |-> TRUE, hasRetryDelay |-> FALSE]
    /\ configAccepts = FALSE
    /\ pc = NoRunPc
    /\ steeringMode \in Modes
    /\ followUpMode \in Modes
    /\ es = UnusedStream
    /\ tNormalize = KeepIds
    /\ InitCommon

\* ----------------------------------------------------------- specifications
\* the loop task of one run of agent_loop / agent_loop_continue
Next ==
    \/ RunStart
    \/ PollInitial
    \/ TurnTop
    \/ Request
    \/ ProviderStart
    \/ ProviderDelta
    \/ ProviderTerminal
    \/ ProviderEndsWithoutTerminal
    \/ AfterMessage
    \/ ToolBegin
    \/ ToolUpdate
    \/ ToolReturn
    \/ ToolRaise
    \/ ToolFinish
    \/ PollAfterTool
    \/ TurnEnd
    \/ PollEndOfTurn
    \/ PollFollowUp
    \/ Finish

Spec == Init /\ [][Next]_vars

\* the loop task together with the task that iterates over its stream
ConsumerNext ==
    \/ Next
    \/ Consume

ConsumerSpec == Init /\ [][ConsumerNext]_vars

\* the steering and follow-up queues of an Agent, their writers and readers
QueueNext ==
    \/ steer
    \/ follow_up
    \/ set_steering_mode
    \/ set_follow_up_mode
    \/ steering_reader
    \/ follow_up_reader

QueueSpec == QueueInit /\ [][QueueNext]_vars


\* ------------------------------------------------------------ cancellation
\* The caller sets config.signal while the loop task is suspended in a tool
\* or in a provider stream.  The loop hands the signal to the provider
\* (loop.py 227) and to the tool (loop.py 323) and never reads it itself.
SetSignal ==
    /\ pc \in {"tool_exec", "streaming"}
    /\ ~signalSet
    /\ signalSet' = TRUE
    /\ atAbort' = [executed |-> Len(executed), requests |-> Len(requests),
                   events |-> Len(delivered) + Len(queue), pc |-> pc]
    /\ UNCHANGED <<loopSide, objectVars>>

AbortNext == Next \/ SetSignal

\* a run of agent_loop that gets as far as the provider
AbortInit == Init /\ cfg.entry = "agent_loop" /\ cfg.hasRetryDelay

\* a run of the loop whose signal may be set
AbortSpec == AbortInit /\ [][AbortNext]_vars

\* ================================================================ the Agent
\* Agent (pi_agent/agent.py) as a facade over the loop: send /
\* continue_session start a loop and a forward() task that copies the loop's
\* stream to the stream handed to the caller.  A loop is represented by the
\* chunks of events it pushes: up to the provider request, up to the
\* execution of the tool, up to the end of the run.

MessagePairs(ms) == Flatten([i \in 1..Len(ms) |-> MessagePair(ms[i])])

FacadeCall(n) == ToolCall(10 * n + 1, "echo")

\* agent_loop.run up to the first suspension (loop.py 41-47, 33-47)
OpeningChunk(prompts) ==
    <<Event("agent_start"), Event("turn_start")>> \o MessagePairs(prompts)

\* a run whose assistant message has no tool call (one turn)
PlainRun(n, prompts) ==
    LET a == AssistantMessage(500 + 10 * n, "stop", <<>>, "final") IN
    << OpeningChunk(prompts),
       << MessageEvent("message_start", a), MessageEvent("message_end", a),
          TurnEndEvent(a, <<>>), AgentEndEvent(prompts \o <<a>>), NoEvent >> >>

\* a run whose first assistant message has one tool call (two turns)
ToolRun(n, prompts) ==
    LET c == FacadeCall(n)
        a == AssistantMessage(500 + 10 * n, "toolUse", <<c>>, "final")
        t == ToolResultMessage(c.id, FALSE, OkText)
        b == AssistantMessage(501 + 10 * n, "stop", <<>>, "final")
    IN
    << OpeningChunk(prompts),
       << MessageEvent("message_start", a), MessageEvent("message_end", a),
          ToolStartEvent(c) >>,
       << ToolEndEvent(c, FALSE, OkText), MessageEvent("message_start", t),
          MessageEvent("message_end", t), TurnEndEvent(a, <<t>>),
          Event("turn_start"), MessageEvent("message_start", b),
          MessageEvent("message_end", b), TurnEndEvent(b, <<>>),
          AgentEndEvent(prompts \o <<a, t, b>>), NoEvent >> >>

\* a run whose loop task dies at the provider request (a callback raises,
\* loop.py 195-233): nothing follows the opening events
BrokenRun(n, prompts) == <<OpeningChunk(prompts)>>

RunScripts(n, prompts) ==
    {PlainRun(n, prompts), ToolRun(n, prompts), BrokenRun(n, prompts)}

\* the chunk ends with the sentinel: the loop has called stream.end
EndsStream(chunk) == chunk[Len(chunk)] = NoEvent

\* Agent._run_loop lines 283-300: the loop and the forward task of a new run
NewRun(script) ==
    [chunks |-> script, loop |-> "running", emitted |-> <<>>, base |-> <<>>,
     forward |-> "waiting", out |-> <<>>, outDone |-> FALSE,
     outResult |-> NoResult, before |-> stateMessages, signal |-> FALSE]

\* loops whose task is alive and has not pushed agent_end yet
ActiveRuns == {r \in 1..Len(runs) : runs[r].loop = "running"}

Attempt(op, outcome) ==
    [op |-> op, outcome |-> outcome, active |-> Cardinality(ActiveRuns)]

\* Agent._run_loop (lines 248-300), entered with the guard passed
StartRun(op, prompts) ==
    /\ is_streaming' = TRUE
    /\ IF configAccepts
       THEN /\ \E script \in RunScripts(Len(runs) + 1, prompts) :
                 runs' = Append(runs, NewRun(script))
            /\ lastCall' = Attempt(op, "started")
       ELSE /\ lastCall' = Attempt(op, "TypeError")
            /\ UNCHANGED runs

\* Agent.send (lines 215-236)
send ==
    /\ Len(runs) < MaxRuns
    /\ IF is_streaming
       THEN /\ lastCall' = Attempt("send", "already processing")
            /\ UNCHANGED <<is_streaming, runs>>
       ELSE StartRun("send", <<UserMessage(400 + Len(runs))>>)
    /\ UNCHANGED <<cfg, restVars, pc, streamVars, consumerVars, loopVars, agentVars,
                   counterVars, historyVars, configAccepts, stateMessages,
                   sessionLog, pending_tool_calls>>

\* Agent.continue_session (lines 238-246)
continue_session ==
    /\ Len(runs) < MaxRuns
    /\ IF is_streaming
       THEN /\ lastCall' = Attempt("continue_session", "already processing")
            /\ UNCHANGED <<is_streaming, runs>>
       ELSE IF stateMessages = <<>>
       THEN /\ lastCall' = Attempt("continue_session", "no messages")
            /\ UNCHANGED <<is_streaming, runs>>
       ELSE IF stateMessages[Len(stateMessages)].role = "assistant"
       THEN /\ lastCall' = Attempt("continue_session", "last is assistant")
            /\ UNCHANGED <<is_streaming, runs>>
       ELSE StartRun("continue_session", <<>>)
    /\ UNCHANGED <<cfg, restVars, pc, streamVars, consumerVars, loopVars, agentVars,
                   counterVars, historyVars, configAccepts, stateMessages,
                   sessionLog, pending_tool_calls>>

\* Agent.abort (lines 207-209): sets the signal of the latest run (a signal
\* set after that loop is over has no reader left)
abort ==
    /\ runs # <<>>
    /\ runs[Len(runs)].loop = "running"
    /\ ~runs[Len(runs)].signal
    /\ runs' = [runs EXCEPT ![Len(runs)].signal = TRUE]
    /\ UNCHANGED <<cfg, restVars, pc, streamVars, consumerVars, loopVars, agentVars,
                   counterVars, historyVars, configAccepts, is_streaming,
                   stateMessages, sessionLog, pending_tool_calls, lastCall>>

\* Agent.reset (lines 199-205)
reset ==
    /\ stateMessages' = <<>>
    /\ is_streaming' = FALSE
    /\ pending_tool_calls' = {}
    /\ steeringQueue' = <<>>
    /\ followUpQueue' = <<>>
    /\ UNCHANGED <<cfg, restVars, pc, streamVars, consumerVars, loopVars, steeringMode,
                   followUpMode, enqueued, lastPoll, counterVars, historyVars,
                   configAccepts, sessionLog, runs, lastCall>>

\* the loop task of run r runs from one suspension point to the next
LoopStep(r) ==
    /\ runs[r].loop = "running"
    /\ runs' = [runs EXCEPT
                  ![r].base = @ \o Head(runs[r].chunks),
                  ![r].emitted = @ \o Head(runs[r].chunks),
                  ![r].chunks = Tail(@),
                  ![r].loop = IF Len(runs[r].chunks) > 1 THEN @
                              ELSE IF EndsStream(Head(runs[r].chunks))
                              THEN "ended" ELSE "crashed"]
    /\ UNCHANGED <<cfg, restVars, pc, streamVars, consumerVars, loopVars, agentVars,
                   counterVars, historyVars, configAccepts, is_streaming,
                   stateMessages, sessionLog, pending_tool_calls, lastCall>>

\* the key under which _handle_event looks for the call id (lines 344, 346)
\* is not the key the loop writes (loop.py 308, 341): the lookup raises
HandlerFindsCallId == FALSE

\* Agent._handle_event and the push of forward() (lines 293-294, 332-356)
\* for the events evs; the listener called for event number raiseAt raises
RECURSIVE HandleEvents(_, _, _)
HandleEvents(st, evs, raiseAt) ==
    IF evs = <<>> \/ st.status # "ok" THEN st
    ELSE LET e == Head(evs)
             handled ==
                 [st EXCEPT
                    !.messages = IF e.type = "message_end"
                                 THEN Append(@, e.message) ELSE @,
                    !.session = IF e.type = "message_end"
                                THEN Append(@, e.message) ELSE @,
                    !.pending =
                        IF e.type = "tool_execution_start"
                        THEN @ \cup {e.toolCallId}
                        ELSE IF e.type = "tool_execution_end"
                        THEN @ \ {e.toolCallId} ELSE @,
                    !.streaming = IF e.type = "agent_end" THEN FALSE ELSE @]
         IN
         IF e = NoEvent THEN [st EXCEPT !.status = "done"]
         ELSE IF /\ e.type \in {"tool_execution_start", "tool_execution_end"}
                 /\ ~HandlerFindsCallId
         THEN [st EXCEPT !.status = "KeyError"]
         ELSE IF raiseAt = 1 THEN [handled EXCEPT !.status = "failed"]
         ELSE HandleEvents([handled EXCEPT !.out = Append(@, e)],
                           Tail(evs), raiseAt - 1)

\* forward() of run r (lines 290-297) consumes what the loop has pushed
Forward(r) ==
    /\ runs[r].forward = "waiting"
    /\ runs[r].base # <<>>
    /\ \E raiseAt \in {0} \cup {k \in 1..Len(runs[r].base) :
                                  runs[r].base[k].type = "message_end"} :
        LET st == HandleEvents(
                      [messages |-> stateMessages, session |-> sessionLog,
                       pending |-> pending_tool_calls,
                       streaming |-> is_streaming, out |-> <<>>,
                       status |-> "ok"],
                      runs[r].base, raiseAt)
            pushed == pushAll(runs[r].out, runs[r].outDone, st.out)
        IN
        /\ stateMessages' = st.messages
        /\ sessionLog' = st.session
        /\ pending_tool_calls' = st.pending
        /\ IF st.status = "ok"
           THEN /\ is_streaming' = st.streaming
                /\ runs' = [runs EXCEPT ![r].base = <<>>, ![r].out = pushed]
           ELSE /\ is_streaming' = FALSE
                /\ runs' = [runs EXCEPT
                              ![r].base = <<>>,
                              ![r].forward = st.status,
                              ![r].out = endQueue(pushed, runs[r].outDone),
                              ![r].outDone = TRUE,
                              ![r].outResult = endResult(st.messages)]
    /\ UNCHANGED <<cfg, restVars, pc, streamVars, consumerVars, loopVars, agentVars,
                   counterVars, historyVars, configAccepts, lastCall>>

\* an Agent after __init__
AgentInit ==
    /\ cfg = [entry |-> "agent_loop", hasSteering |-> TRUE,
              hasFollowUp |-> TRUE, hasRetryDelay |-> FALSE]
    /\ configAccepts \in BOOLEAN
    /\ pc = NoRunPc
    /\ steeringMode = "one-at-a-time"
    /\ followUpMode = "one-at-a-time"
    /\ es = UnusedStream
    /\ tNormalize = KeepIds
    /\ InitCommon

AgentNext ==
    \/ send
    \/ continue_session
    \/ enqueued < MaxSteered /\ steer
    \/ enqueued < MaxSteered /\ follow_up
    \/ abort
    \/ reset
    \/ \E r \in 1..Len(runs) : LoopStep(r)
    \/ \E r \in 1..Len(runs) : Forward(r)

AgentSpec == AgentInit /\ [][AgentNext]_vars

\* ===================================================== the stream classes
\* One stream object of either class with a producer calling push and end,
\* one `async for` consumer and callers of result().
StreamEvents ==
    {[type |-> "delta", value |-> None],
     [type |-> "done", value |-> 1],
     [type |-> "error", value |-> MaxValue]}

PushCall(e) == [op |-> "push", type |-> e.type, value |-> e.value]

EndCall(v) == [op |-> "end", type |-> "None", value |-> v]

CallsOf(cs, op) == SelectSeq(cs, LAMBDA c : c.op = op)

\* a producer's push(event)
EsPush ==
    /\ Len(CallsOf(callLog, "push")) < MaxPushes
    /\ \E e \in StreamEvents :
          /\ es' = StreamPush(es, e)
          /\ callLog' = Append(callLog, PushCall(e))
    /\ UNCHANGED <<loopSide, signalVars, taken, iterStopped, waiters>>

\* a producer's end(value), end() being end(None)
EsEnd ==
    /\ Len(CallsOf(callLog, "end")) < MaxEnds
    /\ \E v \in 0..MaxValue :
          /\ es' = StreamEnd(es, v)
          /\ callLog' = Append(callLog, EndCall(v))
    /\ UNCHANGED <<loopSide, signalVars, taken, iterStopped, waiters>>

\* __anext__ (events.py 40-44, streaming.py 51-55): the next queued item;
\* the sentinel stops the iteration
EsNext ==
    /\ ~iterStopped
    /\ es.queue # <<>>
    /\ es' = [es EXCEPT !.queue = Tail(@)]
    /\ IF Head(es.queue) = EndOfStream
       THEN iterStopped' = TRUE /\ taken' = taken
       ELSE iterStopped' = FALSE /\ taken' = Append(taken, Head(es.queue))
    /\ UNCHANGED <<loopSide, signalVars, callLog, waiters>>

\* what result() does once _result_event is set (events.py 33-35,
\* streaming.py 39-41)
Completed(w, res) ==
    IF res.value = None
    THEN [w EXCEPT !.state = "raised"]
    ELSE [w EXCEPT !.state = "returned", !.value = res.value]

\* a call of result(): it waits on _result_event (events.py 32,
\* streaming.py 38), which does not suspend when the event is already set
EsResult ==
    /\ Len(waiters) < MaxWaiters
    /\ LET w == [state |-> "waiting", value |-> None, afterEnd |-> es.done]
       IN  waiters' = Append(waiters,
                             IF es.result.set THEN Completed(w, es.result)
                             ELSE w)
    /\ UNCHANGED <<loopSide, signalVars, es, callLog, taken, iterStopped>>

\* a waiting result() resumes when _result_event is set
EsResultWake ==
    /\ \E w \in 1..Len(waiters) :
          /\ waiters[w].state = "waiting"
          /\ es.result.set
          /\ waiters' = [waiters EXCEPT ![w] = Completed(@, es.result)]
    /\ UNCHANGED <<loopSide, signalVars, es, callLog, taken, iterStopped>>

StreamInit ==
    /\ cfg = [entry |-> "agent_loop", hasSteering |-> TRUE,
              hasFollowUp |-> TRUE, hasRetryDelay |-> FALSE]
    /\ configAccepts = FALSE
    /\ pc = NoRunPc
    /\ steeringMode = "one-at-a-time"
    /\ followUpMode = "one-at-a-time"
    /\ es \in {NewStream(class) : class \in StreamClasses}
    /\ tNormalize = KeepIds
    /\ InitCommon

StreamNext == EsPush \/ EsEnd \/ EsNext \/ EsResult \/ EsResultWake

StreamSpec == StreamInit /\ [][StreamNext]_vars

\* the scheduler resumes every task that is ready: the consumer and the
\* waiting result() calls; nothing obliges the producer to call again
StreamFairSpec ==
    StreamSpec /\ WF_vars(EsNext) /\ WF_vars(EsResultWake)

\* ========================================================= a provider run
\* run() of stream_openai_completions (openai.py 71-295); stream_anthropic
\* (anthropic.py 178-354) checks the signal at the same two places.  The
\* stream is es; a message is written as its stop_reason.
Stopped == 1       \* stop_reason "stop"
Aborted == 2       \* stop_reason "aborted"
Failed == 3        \* stop_reason "error"

Lines == {"data", "[DONE]", "reset"}

\* the server sends one more line; "reset" is a broken connection
ServerSends ==
    /\ providerPc \in {"idle", "reading"}
    /\ ~wireClosed
    /\ linesSent < MaxLines
    /\ \E line \in Lines : wire' = Append(wire, line)
    /\ linesSent' = linesSent + 1
    /\ UNCHANGED <<agentSide, signalVars, objectVars, providerPc, wireClosed>>

\* the server closes the response
ServerCloses ==
    /\ providerPc \in {"idle", "reading"}
    /\ ~wireClosed
    /\ wireClosed' = TRUE
    /\ UNCHANGED <<agentSide, signalVars, objectVars, providerPc, wire,
                   linesSent>>

\* the caller sets options.signal while the stream is in progress
ProviderSetSignal ==
    /\ providerPc \in {"reading", "after"}
    /\ ~signalSet
    /\ signalSet' = TRUE
    /\ UNCHANGED <<agentSide, atAbort, objectVars, providerVars>>

Pushed(st, cs, e) ==
    [stream |-> StreamPush(st, e), log |-> Append(cs, PushCall(e))]

Ended(st, cs, v) ==
    [stream |-> StreamEnd(st, v), log |-> Append(cs, EndCall(v))]

\* lines 98-99: the response has arrived
ResponseArrives ==
    /\ providerPc = "idle"
    /\ LET p == Pushed(es, callLog, [type |-> "start", value |-> None])
       IN  es' = p.stream /\ callLog' = p.log
    /\ providerPc' = "reading"
    /\ UNCHANGED <<agentSide, signalVars, taken, iterStopped, waiters, wire,
                   wireClosed, linesSent>>

\* a handler that calls an aborted run a failed one
ReasonIgnoringSignal == Failed

\* line 292
Reason == IF signalSet THEN Aborted ELSE Failed

\* lines 291-295: the except branch
Fail ==
    LET p == Pushed(es, callLog, [type |-> "error", value |-> Reason])
        q == Ended(p.stream, p.log, Reason)
    IN  /\ es' = q.stream
        /\ callLog' = q.log
        /\ providerPc' = "finished"

\* lines 138-146: aiter_lines yields a line; the signal is looked at first
ProviderReadsLine ==
    /\ providerPc = "reading"
    /\ wire # <<>>
    /\ wire' = Tail(wire)
    /\ IF Head(wire) = "reset" \/ signalSet
       THEN Fail
       ELSE IF Head(wire) = "[DONE]"
       THEN providerPc' = "after" /\ UNCHANGED <<es, callLog>>
       ELSE /\ LET p == Pushed(es, callLog,
                               [type |-> "delta", value |-> None])
               IN  es' = p.stream /\ callLog' = p.log
            /\ providerPc' = "reading"
    /\ UNCHANGED <<agentSide, signalVars, taken, iterStopped, waiters,
                   wireClosed, linesSent>>

\* line 138: aiter_lines is exhausted
ProviderReadsEnd ==
    /\ providerPc = "reading"
    /\ wire = <<>>
    /\ wireClosed
    /\ providerPc' = "after"
    /\ UNCHANGED <<agentSide, signalVars, objectVars, wire, wireClosed,
                   linesSent>>

\* lines 288-290, after the response and the client are closed
ProviderFinishes ==
    /\ providerPc = "after"
    /\ IF signalSet
       THEN Fail
       ELSE LET p == Pushed(es, callLog,
                            [type |-> "done", value |-> Stopped])
                q == Ended(p.stream, p.log, Stopped)
            IN  /\ es' = q.stream
                /\ callLog' = q.log
                /\ providerPc' = "finished"
    /\ UNCHANGED <<agentSide, signalVars, taken, iterStopped, waiters, wire,
                   wireClosed, linesSent>>

ProviderInit ==
    /\ cfg = [entry |-> "agent_loop", hasSteering |-> TRUE,
              hasFollowUp |-> TRUE, hasRetryDelay |-> FALSE]
    /\ configAccepts = FALSE
    /\ pc = NoRunPc
    /\ steeringMode = "one-at-a-time"
    /\ followUpMode = "one-at-a-time"
    /\ es = NewStream("AssistantMessageEventStream")
    /\ tNormalize = KeepIds
    /\ InitCommon

ProviderNext ==
    \/ ServerSends
    \/ ServerCloses
    \/ ProviderSetSignal
    \/ ResponseArrives
    \/ ProviderReadsLine
    \/ ProviderReadsEnd
    \/ ProviderFinishes
    \/ EsNext
    \/ EsResult
    \/ EsResultWake

ProviderSpec == ProviderInit /\ [][ProviderNext]_vars

\* the event loop runs every task that is ready; nothing obliges the server
\* to send or to close
ProviderFairSpec ==
    /\ ProviderSpec
    /\ WF_vars(ResponseArrives)
    /\ WF_vars(ProviderReadsLine)
    /\ WF_vars(ProviderReadsEnd)
    /\ WF_vars(ProviderFinishes)
    /\ WF_vars(EsNext)
    /\ WF_vars(EsResultWake)

\* ====================================================== transform_messages
\* pi_ai/transform.py.  A content block is [type, id, text, sig]; sig is
\* thinking_signature or thought_signature.  `same` of an assistant message
\* says that its provider, api and model are those of the target model.
TextContent(text) == [type |-> "text", id |-> "", text |-> text, sig |-> ""]

ThinkingContent(text, sig) ==
    [type |-> "thinking", id |-> "", text |-> text, sig |-> sig]

CallBlock(id, sig) == [type |-> "toolCall", id |-> id, text |-> "", sig |-> sig]

NoResultText == "No result provided"

TUser ==
    [role |-> "user", same |-> FALSE, stop |-> "", content |-> <<>>,
     id |-> "", isError |-> FALSE, text |-> "u"]

TResult(id, isError, text) ==
    [TUser EXCEPT !.role = "toolResult", !.id = id, !.isError = isError,
                  !.text = text]

TAssistant(same, stop, content) ==
    [TUser EXCEPT !.role = "assistant", !.same = same, !.stop = stop,
                  !.content = content, !.text = ""]

\* lines 52-62
NormalizeThinking(block, same) ==
    IF same /\ block.sig # "" THEN <<block>>
    ELSE IF block.text = "" THEN <<>>
    ELSE IF same THEN <<block>>
    ELSE <<TextContent(block.text)>>

\* lines 64-69
NormalizeText(block, same) ==
    IF same THEN <<block>> ELSE <<TextContent(block.text)>>

\* lines 71-88: the block put into the message
NormalizeCall(block, same, normalize) ==
    IF same THEN block ELSE CallBlock(normalize[block.id], "")

\* lines 79-82: tool_call_id_map after the block
MapAfterCall(map, block, same, normalize) ==
    IF ~same /\ normalize[block.id] # block.id
    THEN [map EXCEPT ![block.id] = normalize[block.id]]
    ELSE map

\* lines 50-89: the content of one assistant message and the map after it
RECURSIVE NormalizeContent(_, _, _, _)
NormalizeContent(content, same, normalize, map) ==
    IF content = <<>> THEN [content |-> <<>>, map |-> map]
    ELSE LET block == Head(content)
             here == IF block.type = "thinking"
                     THEN NormalizeThinking(block, same)
                     ELSE IF block.type = "text"
                     THEN NormalizeText(block, same)
                     ELSE <<NormalizeCall(block, same, normalize)>>
             map1 == IF block.type = "toolCall"
                     THEN MapAfterCall(map, block, same, normalize)
                     ELSE map
             rest == NormalizeContent(Tail(content), same, normalize, map1)
         IN  [content |-> here \o rest.content, map |-> rest.map]

\* lines 24-40: "" is a key the map does not have
RewriteResult(msg, map) ==
    IF map[msg.id] # "" /\ map[msg.id] # msg.id
    THEN [msg EXCEPT !.id = map[msg.id]]
    ELSE msg

\* lines 16-106: the first loop
RECURSIVE Transformed(_, _, _)
Transformed(messages, normalize, map) ==
    IF messages = <<>> THEN <<>>
    ELSE LET msg == Head(messages)
         IN  IF msg.role = "toolResult"
             THEN <<RewriteResult(msg, map)>>
                      \o Transformed(Tail(messages), normalize, map)
             ELSE IF msg.role = "assistant"
             THEN LET n == NormalizeContent(msg.content, msg.same,
                                            normalize, map)
                  IN  <<[msg EXCEPT !.content = n.content]>>
                          \o Transformed(Tail(messages), normalize, n.map)
             ELSE <<msg>> \o Transformed(Tail(messages), normalize, map)

\* a flush that does not look at the results seen
FlushAll(pending, existing) ==
    [i \in 1..Len(pending) |-> TResult(pending[i].id, TRUE, NoResultText)]

\* lines 113-127: _flush_pending
FlushPending(pending, existing) ==
    LET missing == SelectSeq(pending, LAMBDA tc : tc.id \notin existing)
    IN  [i \in 1..Len(missing) |-> TResult(missing[i].id, TRUE, NoResultText)]

\* line 137
ToolCallsOf(msg) == SelectSeq(msg.content, LAMBDA b : b.type = "toolCall")

\* lines 129-153: the second loop
RECURSIVE Scan(_, _, _)
Scan(messages, pending, existing) ==
    IF messages = <<>> THEN <<>>
    ELSE LET msg == Head(messages)
             flushes == pending # <<>> /\ msg.role \in {"assistant", "user"}
             flushed == IF flushes THEN FlushPending(pending, existing)
                        ELSE <<>>
             pending1 == IF flushes THEN <<>> ELSE pending
             existing1 == IF flushes THEN {} ELSE existing
             calls == ToolCallsOf(msg)
         IN  IF msg.role = "assistant"
             THEN IF msg.stop \in {"error", "aborted"}
                  THEN flushed \o Scan(Tail(messages), pending1, existing1)
                  ELSE flushed \o <<msg>>
                        \o Scan(Tail(messages),
                                IF calls # <<>> THEN calls ELSE pending1,
                                IF calls # <<>> THEN {} ELSE existing1)
             ELSE IF msg.role = "toolResult"
             THEN <<msg>> \o Scan(Tail(messages), pending,
                                  existing \cup {msg.id})
             ELSE flushed \o <<msg>>
                      \o Scan(Tail(messages), pending1, existing1)

NoMap == [id \in Ids |-> ""]

transform_messages(messages, normalize) ==
    Scan(Transformed(messages, normalize, NoMap), <<>>, {})

\* the messages a list is built from
Contents ==
    {<<CallBlock("a", "")>>,
     <<CallBlock("a", ""), CallBlock("b", "sig")>>,
     <<ThinkingContent("th", ""), CallBlock("b", "")>>,
     <<TextContent("t"), ThinkingContent("", ""), ThinkingContent("th", "sig")>>}

InputMessages ==
    {TUser}
        \cup {TResult(id, FALSE, "ok") : id \in Ids}
        \cup {TAssistant(same, "toolUse", c) : same \in BOOLEAN, c \in Contents}
        \cup {TAssistant(TRUE, "error", <<CallBlock("a", "")>>)}

\* a caller builds the list
AddMessage ==
    /\ tPc = "building"
    /\ Len(tMessages) < MaxMessages
    /\ \E msg \in InputMessages : tMessages' = Append(tMessages, msg)
    /\ UNCHANGED <<programSide, signalVars, objectVars, managerVars,
                   tNormalize, tPc, tOnce, tTwice>>

\* transform_messages(messages, model, normalize_tool_call_id)
Transform ==
    /\ tPc = "building"
    /\ tOnce' = transform_messages(tMessages, tNormalize)
    /\ tPc' = "once"
    /\ UNCHANGED <<programSide, signalVars, objectVars, managerVars,
                   tMessages, tNormalize, tTwice>>

\* its output is handed to it again
TransformAgain ==
    /\ tPc = "once"
    /\ tTwice' = transform_messages(tOnce, tNormalize)
    /\ tPc' = "twice"
    /\ UNCHANGED <<programSide, signalVars, objectVars, managerVars,
                   tMessages, tNormalize, tOnce>>

TransformInit ==
    /\ cfg = [entry |-> "agent_loop", hasSteering |-> TRUE,
              hasFollowUp |-> TRUE, hasRetryDelay |-> FALSE]
    /\ configAccepts = FALSE
    /\ pc = NoRunPc
    /\ steeringMode = "one-at-a-time"
    /\ followUpMode = "one-at-a-time"
    /\ es = UnusedStream
    /\ tNormalize \in [Ids -> Ids]
    /\ InitCommon

TransformNext == AddMessage \/ Transform \/ TransformAgain

TransformSpec == TransformInit /\ [][TransformNext]_vars

\* ========================================================== SessionManager
\* pi_session/manager.py.  An entry is [id, parentId, type, targetId, label,
\* firstKept]; ids are numbers handed out in order, None is no id.  The
\* header of the entry list is left out, as get_entries does (lines 849-850).
NoLabel == "None"

Labels == {"x", "y"}

EntryTypes == {"message", "compaction", "label", "branch_summary"}

CountOf(entries, type) == Len(SelectSeq(entries, LAMBDA e : e.type = type))

Entry(id, parentId, type) ==
    [id |-> id, parentId |-> parentId, type |-> type, targetId |-> None,
     label |-> NoLabel, firstKept |-> None]

NoEntry == Entry(None, None, "None")

\* _by_id (lines 794, 824): the entry with the id, NoEntry without one
RECURSIVE ById(_, _)
ById(entries, id) ==
    IF entries = <<>> THEN NoEntry
    ELSE IF entries[Len(entries)].id = id THEN entries[Len(entries)]
    ELSE ById(SubSeq(entries, 1, Len(entries) - 1), id)

\* a test that takes every id for a known one
KnownAlways(entries, id) == TRUE

\* `id in self._by_id` (line 1055)
Known(entries, id) == \E i \in 1..Len(entries) : entries[i].id = id

\* a dict of labels as the sequence of its items
DictSet(d, key, value) ==
    IF \E i \in 1..Len(d) : d[i].key = key
    THEN [i \in 1..Len(d) |->
              IF d[i].key = key THEN [key |-> key, value |-> value] ELSE d[i]]
    ELSE Append(d, [key |-> key, value |-> value])

DictPop(d, key) == SelectSeq(d, LAMBDA item : item.key # key)

DictGet(d, key) ==
    IF \E i \in 1..Len(d) : d[i].key = key
    THEN (CHOOSE item \in {d[i] : i \in 1..Len(d)} : item.key = key).value
    ELSE NoLabel

\* a label update that never removes a label
NoteLabelKeeping(d, entry) ==
    IF entry.type = "label" /\ entry.label # NoLabel
    THEN DictSet(d, entry.targetId, entry.label)
    ELSE d

\* lines 796-800 and 826-830: what an entry does to _labels_by_id
NoteLabel(d, entry) ==
    IF entry.type # "label" THEN d
    ELSE IF entry.label # NoLabel
    THEN DictSet(d, entry.targetId, entry.label)
    ELSE DictPop(d, entry.targetId)

\* _build_index (lines 790-800): _labels_by_id from the entry list
RECURSIVE ReplayLabels(_)
ReplayLabels(entries) ==
    IF entries = <<>> THEN <<>>
    ELSE NoteLabel(ReplayLabels(SubSeq(entries, 1, Len(entries) - 1)),
                   entries[Len(entries)])

\* _build_index: _leaf_id is the id of the last entry
LastId(entries) ==
    IF entries = <<>> THEN None ELSE entries[Len(entries)].id

\* lines 1017-1023 and 578-582: walk the parent pointers up from an entry
RECURSIVE PathTo(_, _)
PathTo(entries, current) ==
    IF current = NoEntry THEN <<>>
    ELSE Append(PathTo(entries,
                       IF current.parentId # None
                       THEN ById(entries, current.parentId) ELSE NoEntry),
                current)

\* a branch that is every entry written up to the one asked for
get_branch_in_file_order(entries, leaf, entry_id) ==
    LET id == IF entry_id = None THEN leaf ELSE entry_id
        at == {i \in 1..Len(entries) : entries[i].id = id}
    IN  IF at = {} THEN <<>> ELSE SubSeq(entries, 1, CHOOSE i \in at : TRUE)

\* get_branch (lines 1012-1024)
get_branch(entries, leaf, entry_id) ==
    LET id == IF entry_id = None THEN leaf ELSE entry_id
    IN  IF id = None THEN <<>> ELSE PathTo(entries, ById(entries, id))

\* lines 601-622: the message an entry contributes
MessageOf(entry) ==
    IF entry.type = "message" THEN <<[role |-> "message", id |-> entry.id]>>
    ELSE IF entry.type = "branch_summary"
    THEN <<[role |-> "branchSummary", id |-> entry.id]>>
    ELSE <<>>

RECURSIVE MessagesOf(_)
MessagesOf(path) ==
    IF path = <<>> THEN <<>>
    ELSE MessageOf(Head(path)) \o MessagesOf(Tail(path))

\* lines 588-597: the last compaction entry of the path
LastCompaction(path) ==
    LET at == {i \in 1..Len(path) : path[i].type = "compaction"}
    IN  IF at = {} THEN NoEntry
        ELSE path[CHOOSE i \in at : \A j \in at : j <= i]

\* a reconstruction that keeps everything before the compaction
KeptBeforeAll(path, idx, firstKept) == SubSeq(path, 1, idx - 1)

\* lines 636-642: the entries before the compaction from the first kept one
KeptBefore(path, idx, firstKept) ==
    LET at == {i \in 1..(idx - 1) : path[i].id = firstKept}
    IN  IF at = {} THEN <<>>
        ELSE SubSeq(path, CHOOSE i \in at : \A j \in at : i <= j, idx - 1)

\* build_session_context (lines 560-650): the messages
build_session_context(entries, leaf_id) ==
    LET leaf == IF leaf_id = None THEN NoEntry ELSE ById(entries, leaf_id)
        path == PathTo(entries, leaf)
        compaction == LastCompaction(path)
    IN  IF leaf = NoEntry THEN <<>>
        ELSE IF compaction = NoEntry THEN MessagesOf(path)
        ELSE LET idx == CHOOSE i \in 1..Len(path) : path[i].id = compaction.id
             IN  <<[role |-> "compactionSummary", id |-> compaction.id]>>
                     \o MessagesOf(KeptBefore(path, idx, compaction.firstKept))
                     \o MessagesOf(SubSeq(path, idx + 1, Len(path)))

\* ------------------------------------------------------- the session file
\* A line of the file is the dict json.loads makes of it, a record whose
\* fields are the keys it has; a line that is no JSON object, or one
\* without a "type", is a record without a type field. Message payloads and
\* timestamps are not modelled.

CURRENT_SESSION_VERSION == 3

\* the empty string where an id is expected
Blank == 0 - 1

NoParentSession == "None"

NoFile == [exists |-> FALSE, lines |-> <<>>]

FileOf(lines) == [exists |-> TRUE, lines |-> lines]

\* d.get(key, default), d[key] = value and d.pop(key, None)
Get(d, key, default) == IF key \in DOMAIN d THEN d[key] ELSE default

Put(d, key, value) ==
    [k \in DOMAIN d \cup {key} |-> IF k = key THEN value ELSE d[k]]

Pop(d, key) == [k \in DOMAIN d \ {key} |-> d[k]]

\* new_session (lines 768-788) and create_branched_session (lines
\* 1091-1100): the header of a new session
NewHeader(parent_session) ==
    [cwd |-> "cwd", version |-> CURRENT_SESSION_VERSION,
     parentSession |-> parent_session]

\* SessionHeader.to_dict (lines 230-240)
HeaderToDict(header) ==
    IF header.parentSession # NoParentSession
    THEN [type |-> "session", cwd |-> header.cwd,
          version |-> header.version,
          parentSession |-> header.parentSession]
    ELSE [type |-> "session", cwd |-> header.cwd,
          version |-> header.version]

\* SessionHeader(**header) (line 759) takes the keys the dataclass has and
\* needs those without a default (id, timestamp and cwd, of which the model
\* has cwd)
HeaderAccepted(d) ==
    /\ {"type", "cwd"} \subseteq DOMAIN d
    /\ DOMAIN d \subseteq {"type", "cwd", "version", "parentSession"}

HeaderFromDict(d) ==
    [cwd |-> d.cwd, version |-> Get(d, "version", CURRENT_SESSION_VERSION),
     parentSession |-> Get(d, "parentSession", NoParentSession)]

\* a to_dict that leaves the parentId out
ToDictWithoutParent(entry) ==
    IF entry.type = "compaction"
    THEN [type |-> entry.type, id |-> entry.id,
          firstKeptEntryId |-> entry.firstKept]
    ELSE [type |-> entry.type, id |-> entry.id]

\* to_dict of the entry classes (lines 251-383)
ToDict(entry) ==
    LET base == [type |-> entry.type, id |-> entry.id,
                 parentId |-> entry.parentId]
    IN  IF entry.type = "compaction"
        THEN Put(base, "firstKeptEntryId", entry.firstKept)
        ELSE IF entry.type = "label"
        THEN IF entry.label # NoLabel
             THEN Put(Put(base, "targetId", entry.targetId),
                      "label", entry.label)
             ELSE Put(base, "targetId", entry.targetId)
        ELSE base

\* _entry_from_dict (lines 429-474)
EntryFromDict(payload) ==
    LET base == Entry(Get(payload, "id", None),
                      Get(payload, "parentId", None), payload.type)
    IN  IF payload.type = "compaction"
        THEN [base EXCEPT
                 !.firstKept = Get(payload, "firstKeptEntryId", Blank)]
        ELSE IF payload.type = "label"
        THEN [base EXCEPT !.targetId = Get(payload, "targetId", Blank),
                          !.label = Get(payload, "label", NoLabel)]
        ELSE base

\* the lines _rewrite_file and _persist_entry write for _file_entries
LinesOf(header, entries) ==
    <<HeaderToDict(header)>> \o [i \in 1..Len(entries) |-> ToDict(entries[i])]

IsSession(d) == d.type = "session"

\* load_entries_from_file (lines 477-497)
load_entries_from_file(file) ==
    LET entries ==
            SelectSeq(file.lines, LAMBDA data : "type" \in DOMAIN data)
    IN  IF ~file.exists THEN <<>>
        ELSE IF \E i \in 1..Len(entries) : IsSession(entries[i])
        THEN entries
        ELSE <<>>

\* the header of a list of dicts: the first dict of type session
HeaderIn(entries) ==
    entries[CHOOSE i \in 1..Len(entries) :
                /\ IsSession(entries[i])
                /\ \A j \in 1..(i - 1) : ~IsSession(entries[j])]

\* lines 521-538: the version-1 pass from entry i on; the entries before
\* i have their ids already
RECURSIVE MigrateV1(_, _, _, _)
MigrateV1(entries, i, previous_id, entry_id) ==
    IF i > Len(entries) THEN entries
    ELSE IF IsSession(entries[i])
    THEN MigrateV1([entries EXCEPT ![i] = Put(@, "version", 2)],
                   i + 1, previous_id, entry_id)
    ELSE LET chained == Put(Put(entries[i], "id", entry_id),
                            "parentId", previous_id)
             sofar == [entries EXCEPT ![i] = chained]
             kept_index == Get(chained, "firstKeptEntryIndex", 0 - 1)
             resolved ==
                 IF /\ kept_index >= 0
                    /\ kept_index < Len(sofar)
                    /\ ~IsSession(sofar[kept_index + 1])
                 THEN Put(chained, "firstKeptEntryId",
                          Get(sofar[kept_index + 1], "id", None))
                 ELSE chained
             entry ==
                 IF /\ chained.type = "compaction"
                    /\ "firstKeptEntryIndex" \in DOMAIN chained
                 THEN Pop(resolved, "firstKeptEntryIndex")
                 ELSE chained
         IN  MigrateV1([entries EXCEPT ![i] = entry], i + 1, entry_id,
                       entry_id + 1)

\* a version-2 pass that leaves the header as it is
MigrateV2Skipped(entries) == entries

\* lines 540-550: the version-2 pass (the role it renames is part of the
\* message payload)
MigrateV2(entries) ==
    [i \in 1..Len(entries) |->
        IF IsSession(entries[i]) THEN Put(entries[i], "version", 3)
        ELSE entries[i]]

\* int(header.get("version", 1)) if header else 1 (line 518)
VersionOf(entries) ==
    IF \E i \in 1..Len(entries) : IsSession(entries[i])
    THEN Get(HeaderIn(entries), "version", 1)
    ELSE 1

\* migrate_session_entries (lines 516-554): the list it leaves and the
\* value it returns
migrate_session_entries(entries) ==
    LET version == VersionOf(entries)
        afterV1 == IF version < 2 THEN MigrateV1(entries, 1, None, 1)
                   ELSE entries
    IN  [entries |-> IF version < 3 THEN MigrateV2(afterV1) ELSE afterV1,
         changed |-> version < 3]

\* what a successful or failed call leaves in sLast
Called(op, arg, raised) == [op |-> op, raised |-> raised]

NoSnapshot == [path |-> <<>>, labels |-> <<>>]

\* a new entry that hangs off the last entry of the list
ParentIsLast == LastId(sEntries)

\* parentId=self._leaf_id (line 882 and alike)
ParentOfNew == sLeaf

\* _generate_id (lines 22-28) hands out an id no entry has; the file of a
\* new session has a new name (lines 784-787), so a file that is there has
\* been opened or written by the manager
CanAppend ==
    /\ sNextId <= MaxIds
    /\ Len(sEntries) < MaxEntries
    /\ sFile.exists => sFlushed

\* a first write that holds the new entry only
PersistEntryAlone(file, flushed, header, entries, entry) ==
    IF ~flushed THEN FileOf(<<ToDict(entry)>>)
    ELSE FileOf(Append(file.lines, ToDict(entry)))

\* _persist_entry (lines 811-820): the first write holds every entry, a
\* later one adds a line
PersistEntry(file, flushed, header, entries, entry) ==
    IF ~flushed THEN FileOf(LinesOf(header, Append(entries, entry)))
    ELSE FileOf(Append(file.lines, ToDict(entry)))

\* _append_entry (lines 822-831) with an entry whose parentId is _leaf_id
AppendEntry(entry, op, arg) ==
    /\ sEntries' = Append(sEntries, entry)
    /\ sLeaf' = entry.id
    /\ sLabels' = NoteLabel(sLabels, entry)
    /\ sNextId' = sNextId + 1
    /\ sLast' = Called(op, arg, FALSE)
    /\ sBefore' = NoSnapshot
    /\ sFile' = PersistEntry(sFile, sFlushed, sHeader, sEntries, entry)
    /\ sFlushed' = TRUE
    /\ sLoaded' = <<>>
    /\ UNCHANGED <<programSide, signalVars, objectVars, transformVars,
                   sHeader>>

\* lines 878-887; append_custom_message is alike
append_message ==
    /\ CanAppend
    /\ AppendEntry(Entry(sNextId, ParentOfNew, "message"),
                   "append_message", None)

\* lines 912-932
append_compaction ==
    /\ CanAppend
    /\ CountOf(sEntries, "compaction") < MaxCompactions
    /\ \E first_kept_entry_id \in 1..(sNextId - 1) :
          AppendEntry([Entry(sNextId, ParentOfNew, "compaction")
                          EXCEPT !.firstKept = first_kept_entry_id],
                      "append_compaction", first_kept_entry_id)

\* lines 985-995
append_label_change ==
    /\ CanAppend
    /\ CountOf(sEntries, "label") < MaxLabelEntries
    /\ \E target_id \in 1..(sNextId - 1), label \in Labels \cup {NoLabel} :
          AppendEntry([Entry(sNextId, ParentOfNew, "label")
                          EXCEPT !.targetId = target_id, !.label = label],
                      "append_label_change", target_id)

\* lines 1054-1057
branch ==
    /\ \E branch_from_id \in 1..sNextId :
          IF Known(sEntries, branch_from_id)
          THEN /\ sLeaf' = branch_from_id
               /\ sLast' = Called("branch", branch_from_id, FALSE)
          ELSE /\ sLeaf' = sLeaf
               /\ sLast' = Called("branch", branch_from_id, TRUE)
    /\ sBefore' = NoSnapshot
    /\ sLoaded' = <<>>
    /\ UNCHANGED <<programSide, signalVars, objectVars, transformVars,
                   sFile, sFlushed, sHeader, sEntries, sLabels, sNextId>>

\* lines 1059-1060
reset_leaf ==
    /\ sLeaf' = None
    /\ sLast' = Called("reset_leaf", None, FALSE)
    /\ sBefore' = NoSnapshot
    /\ sLoaded' = <<>>
    /\ UNCHANGED <<programSide, signalVars, objectVars, transformVars,
                   sFile, sFlushed, sHeader, sEntries, sLabels, sNextId>>

\* lines 1062-1083
branch_with_summary ==
    /\ \E branch_from_id \in 0..sNextId :
          IF branch_from_id # None /\ ~Known(sEntries, branch_from_id)
          THEN /\ sLast' = Called("branch_with_summary", branch_from_id, TRUE)
               /\ sBefore' = NoSnapshot
               /\ sLoaded' = <<>>
               /\ UNCHANGED <<programSide, signalVars, objectVars,
                              transformVars, sFile, sFlushed, sHeader,
                              sEntries, sLeaf, sLabels, sNextId>>
          ELSE /\ CanAppend
               /\ AppendEntry(Entry(sNextId, branch_from_id, "branch_summary"),
                              "branch_with_summary", branch_from_id)
           
\* lines 1107-1119: the label entries written after the path, chained
RECURSIVE LabelEntries(_, _, _)
LabelEntries(items, parent_id, id) ==
    IF items = <<>> THEN <<>>
    ELSE <<[Entry(id, parent_id, "label")
               EXCEPT !.targetId = Head(items).key,
                      !.label = Head(items).value]>>
             \o LabelEntries(Tail(items), id, id + 1)

\* a branched session that takes every label along
AllLabels(labels, path_entry_ids) == labels

\* labels_to_write (lines 1103-1107): the labels of the entries taken along
LabelsToWrite(labels, path_entry_ids) ==
    SelectSeq(labels, LAMBDA item : item.key \in path_entry_ids)

\* lines 1085-1134
create_branched_session ==
    /\ \E leaf_id \in 1..sNextId :
          LET path == get_branch(sEntries, sLeaf, leaf_id)
              path_without_labels ==
                  SelectSeq(path, LAMBDA e : e.type # "label")
              path_entry_ids ==
                  {path_without_labels[i].id :
                      i \in 1..Len(path_without_labels)}
              labels_to_write == LabelsToWrite(sLabels, path_entry_ids)
              label_entries ==
                  LabelEntries(labels_to_write, LastId(path_without_labels),
                               sNextId)
              entries == path_without_labels \o label_entries
          IN  IF path = <<>>
              THEN /\ sLast' = Called("create_branched_session", leaf_id, TRUE)
                   /\ sBefore' = NoSnapshot
                   /\ UNCHANGED <<sEntries, sLeaf, sLabels, sNextId,
                                  sHeader, sFile>>
              ELSE /\ sNextId + Len(labels_to_write) <= MaxIds + 1
                   /\ sEntries' = entries
                   /\ sLabels' = ReplayLabels(entries)
                   /\ sLeaf' = LastId(entries)
                   /\ sNextId' = sNextId + Len(labels_to_write)
                   /\ sLast' =
                         Called("create_branched_session", leaf_id, FALSE)
                   /\ sBefore' = [path |-> path, labels |-> sLabels]
                   /\ sHeader' = NewHeader("parent")
                   /\ sFile' = FileOf(LinesOf(NewHeader("parent"), entries))
    /\ sLoaded' = <<>>
    /\ UNCHANGED <<programSide, signalVars, objectVars, transformVars,
                   sFlushed>>

\* the id after the largest one of the entries
AfterIds(entries, least) ==
    LET ids == {entries[i].id : i \in 1..Len(entries)} \cup {least - 1}
    IN  1 + CHOOSE id \in ids : \A other \in ids : other <= id

\* new_session (lines 768-788) as set_session_file calls it
NewSession ==
    /\ sHeader' = NewHeader(NoParentSession)
    /\ sEntries' = <<>>
    /\ sLabels' = <<>>
    /\ sLeaf' = None
    /\ sNextId' = sNextId

\* set_session_file (lines 739-766), which also is how a new
\* SessionManager opens a file
set_session_file ==
    LET loaded == load_entries_from_file(sFile)
        migrated == migrate_session_entries(loaded)
        entries == [i \in 1..Len(SelectSeq(migrated.entries,
                                           LAMBDA d : ~IsSession(d))) |->
                       EntryFromDict(SelectSeq(migrated.entries,
                                               LAMBDA d : ~IsSession(d))[i])]
    IN  /\ sBefore' = NoSnapshot
        /\ sLoaded' = loaded
        /\ IF ~sFile.exists
           THEN /\ NewSession
                /\ sFlushed' = FALSE
                /\ sFile' = sFile
                /\ sLast' = Called("set_session_file", None, FALSE)
           ELSE IF loaded = <<>>
           THEN /\ NewSession
                /\ sFlushed' = TRUE
                /\ sFile' = FileOf(LinesOf(NewHeader(NoParentSession), <<>>))
                /\ sLast' = Called("set_session_file", None, FALSE)
           ELSE /\ sFile' = IF migrated.changed THEN FileOf(migrated.entries)
                            ELSE sFile
                /\ IF HeaderAccepted(HeaderIn(migrated.entries))
                   THEN /\ sHeader' = HeaderFromDict(HeaderIn(migrated.entries))
                        /\ sEntries' = entries
                        /\ sLabels' = ReplayLabels(entries)
                        /\ sLeaf' = LastId(entries)
                        /\ sNextId' = AfterIds(entries, sNextId)
                        /\ sFlushed' = TRUE
                        /\ sLast' = Called("set_session_file", None, FALSE)
                   ELSE /\ sLast' = Called("set_session_file", None, TRUE)
                        /\ UNCHANGED <<sHeader, sEntries, sLabels, sLeaf,
                                       sNextId, sFlushed>>
        /\ UNCHANGED <<programSide, signalVars, objectVars, transformVars>>

SessionInit ==
    /\ cfg = [entry |-> "agent_loop", hasSteering |-> TRUE,
              hasFollowUp |-> TRUE, hasRetryDelay |-> FALSE]
    /\ configAccepts = FALSE
    /\ pc = NoRunPc
    /\ steeringMode = "one-at-a-time"
    /\ followUpMode = "one-at-a-time"
    /\ es = UnusedStream
    /\ tNormalize = KeepIds
    /\ InitCommon

SessionNext ==
    \/ append_message
    \/ append_compaction
    \/ append_label_change
    \/ branch
    \/ reset_leaf
    \/ branch_with_summary
    \/ create_branched_session
    \/ set_session_file

SessionSpec == SessionInit /\ [][SessionNext]_vars

\* ------------------------------------------------- files found on disk
\* the lines a file found on disk is made of: headers of the three
\* versions, a header without a cwd, entries with and without ids, a
\* version-1 compaction, and a line that is no entry
ForeignLines ==
    {[type |-> "session", cwd |-> "old", version |-> 3],
     [type |-> "session", cwd |-> "old", version |-> 2],
     [type |-> "session", cwd |-> "old"],
     [type |-> "session", version |-> 3],
     [type |-> "message", id |-> 1, parentId |-> None],
     [type |-> "message", id |-> 2, parentId |-> 1],
     [type |-> "label", id |-> 2, parentId |-> 1, targetId |-> 1,
      label |-> "x"],
     [type |-> "message"],
     [type |-> "compaction", firstKeptEntryIndex |-> 1],
     [raw |-> "not json"]}

ForeignFiles ==
    UNION {[1..n -> ForeignLines] : n \in 0..MaxFileLines}

\* the file a SessionManager is about to be opened on
FileFound ==
    /\ sLast.op = "create"
    /\ ~sFile.exists
    /\ sEntries = <<>>
    /\ \E lines \in ForeignFiles : sFile' = FileOf(lines)
    /\ sLast' = Called("open", None, FALSE)
    /\ UNCHANGED <<programSide, signalVars, objectVars, transformVars,
                   sessionVarsButLast, sFlushed, sHeader, sLoaded>>

OpenNext ==
    \/ FileFound
    \/ set_session_file
    \/ append_message
    \/ append_label_change
    \/ create_branched_session

OpenSpec == SessionInit /\ [][OpenNext]_vars

\* ======================================================== simple options

\* the token counts the calls are made with: multiples of 500 up to
\* MaxTokenSteps of them and the budgets of the table with their neighbours
TokenCounts ==
    {k * 500 : k \in 0..MaxTokenSteps}
        \cup {1023, 1024, 1025, 2048, 8192, 16384, 17407, 17408}

\* the levels a caller passes: none, the five of ThinkingLevel and one the
\* table does not know
ReasoningLevels == {"", "minimal", "low", "medium", "high", "xhigh", "off"}

\* custom_budgets: None or a dict that overrides one level
CustomBudgets == {"None", "high"}

Max(a, b) == IF a >= b THEN a ELSE b

Min(a, b) == IF a <= b THEN a ELSE b

_DEFAULT_THINKING_BUDGETS ==
    [minimal |-> 1024, low |-> 2048, medium |-> 8192, high |-> 16384]

\* budgets = {**_DEFAULT_THINKING_BUDGETS, **(custom_budgets or {})}
Budgets(custom_budgets) ==
    IF custom_budgets = "None" THEN _DEFAULT_THINKING_BUDGETS
    ELSE [_DEFAULT_THINKING_BUDGETS EXCEPT !.high = 4096]

clamp_reasoning(effort) == IF effort = "xhigh" THEN "high" ELSE effort

min_output_tokens == 1024

\* if max_tokens <= thinking_budget
CutBudget(max_tokens, thinking_budget) == max_tokens <= thinking_budget

\* the pair (max_tokens, thinking_budget) the function returns
adjust_max_tokens_for_thinking(base_max_tokens, model_max_tokens, reasoning_level, custom_budgets) ==
    LET budgets == Budgets(custom_budgets)
        level == clamp_reasoning(reasoning_level)
        thinking_budget == Get(budgets, level, 0)
        max_tokens == Min(base_max_tokens + thinking_budget, model_max_tokens)
    IN  IF level = "" THEN <<base_max_tokens, 0>>
        ELSE IF CutBudget(max_tokens, thinking_budget)
             THEN <<max_tokens, Max(0, max_tokens - min_output_tokens)>>
             ELSE <<max_tokens, thinking_budget>>

OtherVars ==
    <<cfg, pc, streamVars, consumerVars, loopVars, agentVars, counterVars,
      historyVars, facadeVars, providerVars, signalVars, objectVars,
      transformVars, managerVars>>

\* a caller has its arguments at hand: base_max_tokens, model_max_tokens,
\* options.reasoning and options.thinking_budgets
AskFor ==
    /\ ~opt.asked
    /\ \E base_max_tokens \in TokenCounts, model_max_tokens \in TokenCounts,
          reasoning_level \in ReasoningLevels,
          custom_budgets \in CustomBudgets :
           opt' = [NotAdjusted EXCEPT !.asked = TRUE,
                                      !.base_max_tokens = base_max_tokens,
                                      !.model_max_tokens = model_max_tokens,
                                      !.reasoning_level = reasoning_level,
                                      !.custom_budgets = custom_budgets]
    /\ UNCHANGED <<OtherVars, parser, rpc>>

\* the call returns
AdjustMaxTokens ==
    /\ opt.asked
    /\ ~opt.called
    /\ LET returned == adjust_max_tokens_for_thinking(
                           opt.base_max_tokens, opt.model_max_tokens,
                           opt.reasoning_level, opt.custom_budgets)
       IN  opt' = [opt EXCEPT !.called = TRUE,
                              !.max_tokens = returned[1],
                              !.thinking_budget = returned[2]]
    /\ UNCHANGED <<OtherVars, parser, rpc>>

\* no loop runs; nothing has been asked of the helpers
UtilInit ==
    /\ cfg = [entry |-> "agent_loop", hasSteering |-> TRUE,
              hasFollowUp |-> TRUE, hasRetryDelay |-> FALSE]
    /\ configAccepts = FALSE
    /\ pc = NoRunPc
    /\ steeringMode = "one-at-a-time"
    /\ followUpMode = "one-at-a-time"
    /\ es = UnusedStream
    /\ tNormalize = KeepIds
    /\ InitCommon

OptionsNext == AskFor \/ AdjustMaxTokens

OptionsSpec == UtilInit /\ [][OptionsNext]_vars

\* ============================================ the chat-completions parser
\* pi_ai/providers/openai.py, the body of run() for one data line.  A block
\* of output.content is [type, id, name, arguments, text]; a text is the
\* sequence of the deltas appended to it.

\* the type a ToolCall carries (pi_ai/types.py) and the type run() looks for
ToolCallType == "tool_call"

ParserToolCallType == "toolCall"

TextBlock(text) ==
    [type |-> "text", id |-> "", name |-> "", arguments |-> "{}",
     text |-> <<text>>]

ThinkingBlock(thinking) ==
    [type |-> "thinking", id |-> "", name |-> "", arguments |-> "{}",
     text |-> <<thinking>>]

\* ToolCall(id=tool_id, name=tool_name, arguments={})
ToolCallBlock(tool_id, tool_name) ==
    [type |-> ToolCallType, id |-> tool_id, name |-> tool_name,
     arguments |-> "{}", text |-> <<>>]

\* the deltas a server sends for a tool-call: an id or none, a function name
\* or none, a piece of the arguments or none
ToolCallIds == {"", "t1", "t2"}

FunctionNames == {"", "echo", "read"}

ArgumentDeltas == {"", "{\"a\":1}"}

ToolCallDeltas ==
    [id : ToolCallIds, name : FunctionNames, arguments : ArgumentDeltas]

\* choices[0] of a chunk: finish_reason, delta.content, delta.reasoning
\* and delta.tool_calls; a chunk with several tool_calls carries nothing else
Chunks ==
    {chunk \in [finish_reason : {"None", "tool_calls"},
                content : {"", "x"},
                reasoning : {"", "r"},
                tool_calls : UNION {[1..n -> ToolCallDeltas] :
                                       n \in 0..MaxToolCallDeltas}] :
        Len(chunk.tool_calls) > 1 =>
            /\ chunk.finish_reason = "None"
            /\ chunk.content = ""
            /\ chunk.reasoning = ""}

\* current_block, when it is not None, is the block appended last
CurrentBlock(p) == p.content[Len(p.content)]

\* block_index()
block_index(p) == Len(p.content) - 1

PushedEvent(p, type) ==
    [p EXCEPT !.pushed = Append(@, [type |-> type,
                                    content_index |-> block_index(p)])]

\* finish_block(current_block)
finish_block(p) ==
    IF ~p.hasCurrent THEN p
    ELSE IF CurrentBlock(p).type = "text" THEN PushedEvent(p, "text_end")
    ELSE IF CurrentBlock(p).type = "thinking" THEN PushedEvent(p, "thinking_end")
    ELSE IF CurrentBlock(p).type = ParserToolCallType
         THEN PushedEvent(p, "toolcall_end")
    ELSE p

\* _map_stop_reason for the two reasons of Chunks
map_stop_reason(reason) == IF reason = "tool_calls" THEN "toolUse" ELSE "error"

\* if choice.get("finish_reason")
FinishReason(p, chunk) ==
    IF chunk.finish_reason = "None" THEN p
    ELSE [p EXCEPT !.stop_reason = map_stop_reason(chunk.finish_reason)]

\* if content_delta, and with kind "thinking" the same for a reasoning delta
ContentDelta(p, kind, delta) ==
    IF delta = "" THEN p
    ELSE IF ~p.hasCurrent \/ CurrentBlock(p).type # kind
         THEN LET opened ==
                      [finish_block(p) EXCEPT
                          !.content = Append(@, IF kind = "text"
                                                THEN TextBlock(delta)
                                                ELSE ThinkingBlock(delta)),
                          !.hasCurrent = TRUE]
              IN  PushedEvent(PushedEvent(opened, kind \o "_start"), kind \o "_delta")
         ELSE PushedEvent([p EXCEPT !.content[Len(p.content)].text =
                                   Append(@, delta)],
                     kind \o "_delta")

\* _parse_streaming_json of the pieces received so far
parse_streaming_json(raw) == IF raw = <<>> THEN "{}" ELSE raw[1]

\* the last non-empty name replaces the block's name
LastNameWins(name, tool_name) == IF tool_name # "" THEN tool_name ELSE name

\* the body of "for tool_call in tool_calls"
ToolCallDelta(p, tool_call) ==
    LET tool_id == tool_call.id
        tool_name == tool_call.name
        args_delta == tool_call.arguments
        opened ==
            IF \/ ~p.hasCurrent
               \/ CurrentBlock(p).type # ParserToolCallType
               \/ (tool_id # "" /\ CurrentBlock(p).id # tool_id)
            THEN PushedEvent([finish_block(p) EXCEPT
                            !.content = Append(@, ToolCallBlock(tool_id,
                                                                tool_name)),
                            !.hasCurrent = TRUE,
                            !.current_tool_args = <<>>],
                        "toolcall_start")
            ELSE p
        last == Len(opened.content)
        args == IF args_delta # ""
                THEN Append(opened.current_tool_args, args_delta)
                ELSE opened.current_tool_args
    IN  IF CurrentBlock(opened).type = ParserToolCallType
        THEN PushedEvent([opened EXCEPT
                        !.content[last].id =
                            IF tool_id # "" THEN tool_id ELSE @,
                        !.content[last].name = LastNameWins(@, tool_name),
                        !.content[last].arguments =
                            IF args_delta # "" THEN parse_streaming_json(args)
                            ELSE @,
                        !.current_tool_args = args],
                    "toolcall_delta")
        ELSE opened

RECURSIVE ToolCallDeltasOf(_, _, _)
ToolCallDeltasOf(p, tool_calls, i) ==
    IF i > Len(tool_calls) THEN p
    ELSE ToolCallDeltasOf(ToolCallDelta(p, tool_calls[i]), tool_calls, i + 1)

\* the tool-calls as the server streams them: a delta with no id or with
\* the id of the tool-call before it goes on with that tool-call, and the
\* first name sent for a tool-call is its name
StreamedCall(p, tool_call) ==
    LET last == Len(p.calls)
    IN  IF \/ ~p.callOpen
           \/ (tool_call.id # "" /\ p.calls[last].id # tool_call.id)
        THEN [p EXCEPT !.calls = Append(@, [id |-> tool_call.id,
                                            name |-> tool_call.name,
                                            deltas |-> 1]),
                       !.callOpen = TRUE]
        ELSE [p EXCEPT !.calls[last].id =
                           IF tool_call.id # "" THEN tool_call.id ELSE @,
                       !.calls[last].name =
                           IF @ = "" THEN tool_call.name ELSE @,
                       !.calls[last].deltas = 2]

RECURSIVE StreamedCalls(_, _, _)
StreamedCalls(p, tool_calls, i) ==
    IF i > Len(tool_calls) THEN p
    ELSE StreamedCalls(StreamedCall(p, tool_calls[i]), tool_calls, i + 1)

Streamed(p, chunk) ==
    StreamedCalls(IF chunk.content # "" \/ chunk.reasoning # ""
                  THEN [p EXCEPT !.callOpen = FALSE] ELSE p,
                  chunk.tool_calls, 1)

\* one data line with choices is read and handled
ReadChunk ==
    /\ ~parser.done
    /\ parser.chunks < MaxChunks
    /\ \E chunk \in Chunks :
           LET reasoned == ContentDelta(ContentDelta(FinishReason(parser, chunk),
                                                     "text", chunk.content),
                                        "thinking", chunk.reasoning)
               handled == ToolCallDeltasOf(reasoned, chunk.tool_calls, 1)
           IN  parser' = [Streamed(handled, chunk) EXCEPT !.chunks = @ + 1]
    /\ UNCHANGED <<OtherVars, opt, rpc>>

\* data: [DONE], or the response ends: the loop is left, the last block is
\* finished, done is pushed and the stream ended
ReadDone ==
    /\ ~parser.done
    /\ parser' = [PushedEvent(finish_block(parser), "done") EXCEPT !.done = TRUE]
    /\ UNCHANGED <<OtherVars, opt, rpc>>

ParserNext == ReadChunk \/ ReadDone

ParserSpec == UtilInit /\ [][ParserNext]_vars

\* ============================================ a loop run by an Agent
\* The loop of one run whose readers are the ones the Agent builds over its
\* two queues (agent.py 302-330), with callers of steer and follow_up.

QueuesKept == UNCHANGED <<steeringMode, followUpMode, enqueued, lastPoll>>

\* _run_loop lines 117-121 with Agent._build_steering_reader._reader
SteeringPollInitial ==
    /\ pc = "poll_initial"
    /\ InitialPollReturns(ReaderReturn(steeringQueue, steeringMode))
    /\ steeringQueue' = ReaderRemaining(steeringQueue, steeringMode)
    /\ UNCHANGED followUpQueue
    /\ QueuesKept

\* _execute_tool_calls lines 360-366 with the Agent's steering reader
SteeringPollAfterTool ==
    /\ pc = "poll_tool"
    /\ AfterToolPollReturns(ReaderReturn(steeringQueue, steeringMode))
    /\ steeringQueue' = ReaderRemaining(steeringQueue, steeringMode)
    /\ UNCHANGED followUpQueue
    /\ QueuesKept

\* _run_loop lines 174-175 with the Agent's steering reader
SteeringPollEndOfTurn ==
    /\ pc = "poll_turn"
    /\ EndOfTurnPollReturns(ReaderReturn(steeringQueue, steeringMode))
    /\ steeringQueue' = ReaderRemaining(steeringQueue, steeringMode)
    /\ UNCHANGED followUpQueue
    /\ QueuesKept

\* _run_loop lines 177-183 with Agent._build_follow_up_reader._reader
FollowUpPoll ==
    /\ pc = "poll_follow"
    /\ FollowUpPollReturns(ReaderReturn(followUpQueue, followUpMode))
    /\ followUpQueue' = ReaderRemaining(followUpQueue, followUpMode)
    /\ UNCHANGED steeringQueue
    /\ QueuesKept

\* Agent.send: Agent._run_loop has called agent_loop with its readers and
\* with max_retry_delay_ms; the modes are as the caller set them
SteeredInit ==
    /\ cfg = [entry |-> "agent_loop", hasSteering |-> TRUE,
              hasFollowUp |-> TRUE, hasRetryDelay |-> TRUE]
    /\ configAccepts = TRUE
    /\ pc = "start"
    /\ steeringMode \in Modes
    /\ followUpMode \in Modes
    /\ es = UnusedStream
    /\ tNormalize = KeepIds
    /\ InitCommon

SteeredNext ==
    \/ RunStart
    \/ SteeringPollInitial
    \/ TurnTop
    \/ Request
    \/ ProviderStart
    \/ ProviderDelta
    \/ ProviderTerminal
    \/ ProviderEndsWithoutTerminal
    \/ AfterMessage
    \/ ToolBegin
    \/ ToolUpdate
    \/ ToolReturn
    \/ ToolRaise
    \/ ToolFinish
    \/ SteeringPollAfterTool
    \/ TurnEnd
    \/ SteeringPollEndOfTurn
    \/ FollowUpPoll
    \/ Finish
    \/ enqueued < MaxEnqueued /\ steer
    \/ enqueued < MaxEnqueued /\ follow_up

SteeredSpec == SteeredInit /\ [][SteeredNext]_vars

\* ============================================================ the RPC bridge
\* pi_sdk/rpc.py.  _read_lines is the only coroutine of asyncio.run: it reads
\* stdin with a blocking `for line in sys.stdin` and awaits each handler.
\* The tasks of a run (the loop and forward(), agent.py 283-299) advance
\* only while _read_lines is suspended in an await that yields, which is
\* the `async for` of _stream_events.  A run is [left, forward, signal]:
\* the suspension points left before agent_end, the state of forward() and
\* whether its abort event is set.

RpcCommands ==
    [type : {"prompt"}, streaming_behavior : {"None", "steer", "follow_up"}]
    \cup [type : {"steer", "follow_up", "abort", "reset", "get_state"},
          streaming_behavior : {"None"}]

\* some run has not reached agent_end
RunInProgress(r) == r > 0 /\ rpc.runs[r].left > 0

LatestRun == Len(rpc.runs)

\* a client writes a line to stdin
Arrive ==
    /\ rpc.arrived < MaxCommands
    /\ \E command \in RpcCommands :
           rpc' = [rpc EXCEPT
                     !.arrived = @ + 1,
                     !.stdin = Append(@, [command |-> command,
                                          n |-> rpc.arrived + 1,
                                          run |-> LatestRun,
                                          during |-> RunInProgress(LatestRun)])]
    /\ UNCHANGED <<OtherVars, opt, parser>>

Handled(line, outcome) ==
    [command |-> line.command, n |-> line.n, run |-> line.run,
     during |-> line.during, inProgress |-> RunInProgress(line.run),
     outcome |-> outcome]

\* Agent._run_loop (agent.py 248-300) as _handle_prompt sees it
RpcNewRun == [left |-> MaxRunSteps, forward |-> "alive", signal |-> FALSE]

\* _handle_prompt (lines 82-107) up to its await
HandlePrompt(line) ==
    IF /\ rpc.is_streaming
       /\ line.command.streaming_behavior \in {"steer", "follow_up"}
    THEN [rpc EXCEPT
            !.steering = IF line.command.streaming_behavior = "steer"
                         THEN Append(@, line.n) ELSE @,
            !.followUp = IF line.command.streaming_behavior = "follow_up"
                         THEN Append(@, line.n) ELSE @,
            !.handled = Append(@, Handled(line, "queued"))]
    ELSE IF rpc.is_streaming \/ Len(rpc.runs) >= MaxRpcRuns
    THEN [rpc EXCEPT !.handled = Append(@, Handled(line, "error"))]
    ELSE [rpc EXCEPT !.runs = Append(@, RpcNewRun),
                     !.is_streaming = TRUE,
                     !.reader = "stream",
                     !.handled = Append(@, Handled(line, "started"))]

\* the body of `for line in sys.stdin` (lines 151-204) for one line
Dispatch(line) ==
    LET type == line.command.type IN
    IF type = "prompt" THEN HandlePrompt(line)
    ELSE IF type = "steer"
    THEN [rpc EXCEPT !.steering = Append(@, line.n),
                     !.handled = Append(@, Handled(line, "success"))]
    ELSE IF type = "follow_up"
    THEN [rpc EXCEPT !.followUp = Append(@, line.n),
                     !.handled = Append(@, Handled(line, "success"))]
    ELSE IF type = "abort"
    THEN [rpc EXCEPT !.runs = IF rpc.runs = <<>> THEN @
                              ELSE [@ EXCEPT ![LatestRun].signal = TRUE],
                     !.handled = Append(@, Handled(line, "success"))]
    ELSE IF type = "reset"
    THEN [rpc EXCEPT !.is_streaming = FALSE,
                     !.steering = <<>>,
                     !.followUp = <<>>,
                     !.handled = Append(@, Handled(line, "success"))]
    ELSE [rpc EXCEPT !.handled = Append(@, Handled(line, "success"))]

\* _read_lines is at `for line in sys.stdin` and a line is there
ReadLine ==
    /\ rpc.reader = "stdin"
    /\ rpc.stdin # <<>>
    /\ rpc' = [Dispatch(Head(rpc.stdin)) EXCEPT !.stdin = Tail(rpc.stdin)]
    /\ UNCHANGED <<OtherVars, opt, parser>>

\* the loop task of run r advances to its next suspension point while
\* _read_lines awaits events: it polls the steering queue, stops at once
\* when its signal is set, and at its end polls the follow-up queue
RpcLoopStep(r) ==
    /\ rpc.reader = "stream"
    /\ rpc.runs[r].left > 0
    /\ rpc' = [rpc EXCEPT
                 !.steering = IF @ = <<>> THEN @ ELSE Tail(@),
                 !.followUp = IF rpc.runs[r].left = 1 /\ @ # <<>>
                                 /\ ~rpc.runs[r].signal
                              THEN Tail(@) ELSE @,
                 !.runs[r].left =
                     IF rpc.runs[r].signal THEN 0
                     ELSE IF @ = 1 /\ rpc.followUp # <<>> THEN 1
                     ELSE @ - 1]
    /\ UNCHANGED <<OtherVars, opt, parser>>

\* forward() of the run _stream_events reads has handled agent_end and
\* ended the stream (agent.py 290-297, 351-353); _stream_events returns
RpcForwardEnds ==
    /\ rpc.reader = "stream"
    /\ rpc.runs[LatestRun].left = 0
    /\ rpc.runs[LatestRun].forward = "alive"
    /\ rpc' = [rpc EXCEPT !.runs[LatestRun].forward = "done",
                          !.is_streaming = FALSE,
                          !.reader = "stdin"]
    /\ UNCHANGED <<OtherVars, opt, parser>>

\* forward() has met a tool_execution_start: _handle_event raises, the
\* finally block ends the stream with the loop still under way
RpcForwardRaises ==
    /\ rpc.reader = "stream"
    /\ rpc.runs[LatestRun].left > 0
    /\ rpc.runs[LatestRun].left < MaxRunSteps
    /\ rpc.runs[LatestRun].forward = "alive"
    /\ ~HandlerFindsCallId
    /\ rpc' = [rpc EXCEPT !.runs[LatestRun].forward = "KeyError",
                          !.is_streaming = FALSE,
                          !.reader = "stdin"]
    /\ UNCHANGED <<OtherVars, opt, parser>>

RpcNext ==
    \/ Arrive
    \/ ReadLine
    \/ \E r \in 1..Len(rpc.runs) : RpcLoopStep(r)
    \/ RpcForwardEnds
    \/ RpcForwardRaises

RpcSpec == UtilInit /\ [][RpcNext]_vars

\* ================================================================== claims
\* every event pushed on the run's stream so far, then the sentinel if any
Log == delivered \o queue

Events == SelectSeq(Log, LAMBDA e : e # NoEvent)

IsIn(x, seq) == \E i \in 1..Len(seq) : seq[i] = x

MessageEnds == SelectSeq(Events, LAMBDA e : e.type = "message_end")

EndedMessageList == [i \in 1..Len(MessageEnds) |-> MessageEnds[i].message]

IsToolEvent(e) ==
    e.type \in {"tool_execution_start", "tool_execution_update", "tool_execution_end"}

CallIds(m) == {m.calls[i].id : i \in 1..Len(m.calls)}

ErrorStops == {"error", "aborted"}

\* C1: every run ends cleanly -- once the loop task of a run is over
\* (returned, died of an exception, or blocked for good), the stream has
\* been closed with a terminal result and agent_end was the last event, so
\* the consumer is never left waiting.
C1_RunEndsWithAgentEnd ==
    pc \in FinishedPcs =>
        /\ streamDone
        /\ streamResult.set
        /\ Events # <<>>
        /\ Events[Len(Events)].type = "agent_end"

\* C2: an assistant message that finished with error / aborted is followed by
\* turn_end with no tool-results, agent_end and the end of the stream, and
\* nothing of its tool calls is ever run or reported.
C2_ErrorTurnEndsRun ==
    \A i \in 1..Len(newMessages) :
        LET m == newMessages[i] IN
        (m.role = "assistant" /\ m.stop \in ErrorStops) =>
            /\ pc = "ended"
            /\ i = Len(newMessages)
            /\ streamDone
            /\ streamResult = endResult(newMessages)
            /\ Len(Log) >= 3
            /\ Log[Len(Log) - 2] = TurnEndEvent(m, <<>>)
            /\ Log[Len(Log) - 1] = AgentEndEvent(newMessages)
            /\ Log[Len(Log)] = NoEvent
            /\ \A j \in 1..Len(Log) :
                  LET e == Log[j] IN
                  /\ IsToolEvent(e) => e.toolCallId \notin CallIds(m)
                  /\ e.message.role = "tool_result"
                        => e.message.callId \notin CallIds(m)
            /\ \A j \in 1..Len(ctxMessages) :
                  ctxMessages[j].role = "tool_result"
                      => ctxMessages[j].callId \notin CallIds(m)
            /\ \A c \in CallIds(m) : ~IsIn(c, executed)

C2_Witness ==
    /\ pc = "ended"
    /\ message.stop = "aborted"
    /\ message.calls # <<>>
    /\ IsIn(message, newMessages)

\* C3: the messages of the message_end events are, in number and order, the
\* message list delivered as the terminal result of the stream.
C3_MessageEndsAreTheResult ==
    streamResult.set => EndedMessageList = streamResult.value

TurnEnds(ev) == {i \in 1..Len(ev) : ev[i].type = "turn_end"}

\* the events of the turn that the turn_end at position i closes
TurnSegment(ev, i) ==
    LET before == {k \in TurnEnds(ev) : k < i}
    IN  {j \in 1..i : \A k \in before : k < j}

StartsOf(ev, id) ==
    {j \in 1..Len(ev) : /\ ev[j].type = "tool_execution_start"
                        /\ ev[j].toolCallId = id}

EndsOf(ev, id) ==
    {j \in 1..Len(ev) : /\ ev[j].type = "tool_execution_end"
                        /\ ev[j].toolCallId = id}

EarlierCallsEnded(ev, j) ==
    \A i \in 1..(j - 1) :
        ev[i].type = "tool_execution_start" =>
            /\ ev[i].toolCallId < ev[j].toolCallId
            /\ \E k \in (i + 1)..(j - 1) :
                  /\ ev[k].type = "tool_execution_end"
                  /\ ev[k].toolCallId = ev[i].toolCallId

SerialCalls ==
    LET ev == Log IN
    \A j \in 1..Len(ev) :
        ev[j].type = "tool_execution_start" => EarlierCallsEnded(ev, j)

\* the steering polls made after a tool call that returned messages
CuttingPolls ==
    {i \in 1..Len(polls) : /\ polls[i].point = "after_tool"
                           /\ polls[i].returned # <<>>}

Suffix(seq, n) == SubSeq(seq, Len(seq) - n + 1, Len(seq))

SteeringPolls == {i \in 1..Len(polls) : polls[i].reader = "steering"}

FollowUpPolls == {i \in 1..Len(polls) : polls[i].reader = "follow_up"}

\* the poll was made right after the tool-result of a call that was not
\* skipped: the last event then was the message_end of that result
AfterFinishedCall(ev, p) ==
    /\ p.point = "after_tool"
    /\ p.index \in 1..Len(p.message.calls)
    /\ p.at >= 1
    /\ ev[p.at].type = "message_end"
    /\ ev[p.at].message.role = "tool_result"
    /\ ev[p.at].message.callId = p.message.calls[p.index].id
    /\ ev[p.at].message.text # SkippedText

BeforeFirstTurn(i, p) == p.point = "initial" /\ i = 1 /\ p.turn = 0

\* the poll was made right after the turn_end of the turn of p.message
AtTurnEnd(ev, p) ==
    /\ p.at >= 1
    /\ ev[p.at].type = "turn_end"
    /\ ev[p.at].message = p.message
    /\ p.turn >= 1

\* C8 as stated: the steering reader is invoked only before the first turn,
\* after an executed tool call, or at the end of a turn whose assistant
\* message had tool calls -- not at the end of a turn without tool calls.
C8_ThreePollPoints ==
    LET ev == Log IN
    \A i \in SteeringPolls :
        LET p == polls[i] IN
        \/ BeforeFirstTurn(i, p)
        \/ AfterFinishedCall(ev, p)
        \/ /\ p.point = "end_of_turn"
           /\ AtTurnEnd(ev, p)
           /\ p.message.calls # <<>>

\* C8 as the loop behaves: the steering reader is invoked only (i) once
\* before the first turn, (ii) after each tool call that was not skipped,
\* (iii) once at the end of every turn that did not finish with error /
\* aborted and whose tool phase took no steering messages, whether or not
\* the assistant message had tool calls; and with a steering reader
\* configured every turn that ended without tool calls is followed by (iii).
C8_PollPointsOfTheLoop ==
    LET ev == Log IN
    /\ \A i \in SteeringPolls :
          LET p == polls[i] IN
          \/ BeforeFirstTurn(i, p)
          \/ AfterFinishedCall(ev, p) /\ p.message.stop \notin ErrorStops
          \/ /\ p.point = "end_of_turn"
             /\ AtTurnEnd(ev, p)
             /\ p.message.stop \notin ErrorStops
             /\ \A j \in 1..(i - 1) :
                   ~(/\ polls[j].turn = p.turn
                     /\ polls[j].point = "after_tool"
                     /\ polls[j].returned # <<>>)
             /\ \A j \in 1..(i - 1) :
                   ~(polls[j].turn = p.turn /\ polls[j].point = "end_of_turn")
    /\ \A t \in TurnEnds(ev) :
          (/\ cfg.hasSteering
           /\ ev[t].message.calls = <<>>
           /\ ev[t].message.stop \notin ErrorStops
           /\ t < Len(ev))
          => \E i \in SteeringPolls :
                polls[i].point = "end_of_turn" /\ polls[i].at = t

\* a steering poll at the end of a turn without tool calls
C8_Witness ==
    \E i \in SteeringPolls :
        /\ polls[i].point = "end_of_turn"
        /\ polls[i].message.calls = <<>>
        /\ polls[i].message.stop = "stop"
        /\ polls[i].returned # <<>>

C9_WitnessEnd ==
    /\ pc = "ended"
    /\ \E i \in FollowUpPolls : polls[i].returned = <<>>

\* C10: a poll of one of the Agent's queues takes from the front -- in mode
\* one-at-a-time it returns exactly the oldest message (nothing when the queue
\* is empty) and leaves the others in order, in mode all it returns the whole
\* queue in order and leaves it empty; nothing is enqueued inside the poll, the
\* other queue is untouched, and the mode used is the one set when the poll
\* is made.
C10_PollTakesFromTheFront ==
    [][lastPoll'.n # lastPoll.n =>
        LET p == lastPoll'
            steering == p.reader = "steering"
            q == IF steering THEN steeringQueue ELSE followUpQueue
            left == IF steering THEN steeringQueue' ELSE followUpQueue'
            mode == IF steering THEN steeringMode ELSE followUpMode
        IN
        /\ p.reader \in {"steering", "follow_up"}
        /\ p.before = q
        /\ p.mode = mode
        /\ p.returned \o left = q
        /\ mode = "one-at-a-time" =>
              p.returned = IF q = <<>> THEN <<>> ELSE <<q[1]>>
        /\ mode = "all" => p.returned = q /\ left = <<>>
        /\ IF steering THEN followUpQueue' = followUpQueue
                       ELSE steeringQueue' = steeringQueue
    ]_vars

\* a one-at-a-time poll of a steering queue holding several messages, made
\* after an earlier poll
C10_Witness ==
    /\ lastPoll.n >= 2
    /\ lastPoll.reader = "steering"
    /\ lastPoll.mode = "one-at-a-time"
    /\ Len(lastPoll.before) >= 2
    /\ steeringQueue = Tail(lastPoll.before)

\* the guard is up while a loop of the Agent is alive
GuardedWhileRunning == ActiveRuns # {} => is_streaming

\* every loop has delivered agent_end and its events have been forwarded
AllRunsOver ==
    /\ runs # <<>>
    /\ \A r \in 1..Len(runs) : runs[r].loop = "ended" /\ runs[r].base = <<>>

AcceptsAfterAgentEnd == AllRunsOver => ~is_streaming

EndedMessagesOf(ev) ==
    LET ends == SelectSeq(ev, LAMBDA e : e.type = "message_end")
    IN  [i \in 1..Len(ends) |-> ends[i].message]

Occurrences(x, seq) == Cardinality({i \in 1..Len(seq) : seq[i] = x})

IndexIn(x, seq) == CHOOSE i \in 1..Len(seq) : seq[i] = x

ResultIsBeforePlusObserved ==
    \A r \in 1..Len(runs) :
        runs[r].outResult.set =>
            runs[r].outResult.value
                = runs[r].before \o EndedMessagesOf(runs[r].out)

\* C13: once the signal is set during a run, the loop executes no further
\* tool call and opens no further provider stream, and ends the run with a
\* turn_end that carries no tool-results followed by agent_end.
C13_LoopStopsOnSignal ==
    signalSet =>
        /\ Len(executed) = atAbort.executed
        /\ Len(requests) = atAbort.requests
        /\ pc = "ended" =>
              LET ev == Log IN
              /\ Len(ev) >= 3
              /\ ev[Len(ev) - 2].type = "turn_end"
              /\ ev[Len(ev) - 2].toolResults = <<>>
              /\ ev[Len(ev) - 1].type = "agent_end"

FailureTexts == {NotFoundText, InvalidText, RaisedText}

FailedEnds(ev) ==
    {i \in 1..Len(ev) : /\ ev[i].type = "tool_execution_end"
                        /\ ev[i].text \in FailureTexts}

\* the turn_end events that close the turn of the event at position i
ClosingTurnEnds(ev, i) ==
    LET later == {t \in TurnEnds(ev) : t > i}
    IN  {t \in later : \A u \in later : t <= u}

ResultsFor(ms, id) ==
    {j \in 1..Len(ms) : ms[j].role = "tool_result" /\ ms[j].callId = id}

WellFormed(ms) ==
    /\ \A j \in 1..Len(ms) :
          ms[j].role = "tool_result" =>
              \E a \in 1..(j - 1) :
                  /\ ms[a].role = "assistant"
                  /\ ms[j].callId \in CallIds(ms[a])
    /\ \A a \in 1..Len(ms) :
          ms[a].role = "assistant" =>
              \A id \in CallIds(ms[a]) :
                  LET at == ResultsFor(ms, id) IN
                  /\ Cardinality(at) = 1
                  /\ \A j \in at :
                        /\ j > a
                        /\ \A u \in (a + 1)..(j - 1) : ms[u].role # "user"

FirstEnd(cs) ==
    LET ends == {i \in 1..Len(cs) : cs[i].op = "end"}
    IN  IF ends = {} THEN 0 ELSE CHOOSE i \in ends : \A j \in ends : i <= j

\* the events of the push calls made before the first end call
PushedBeforeFirstEnd(cs) ==
    LET k == FirstEnd(cs)
        pre == IF k = 0 THEN cs ELSE SubSeq(cs, 1, k - 1)
    IN  [i \in 1..Len(pre) |-> [type |-> pre[i].type, value |-> pre[i].value]]

Queued(q) == SelectSeq(q, LAMBDA item : item # EndOfStream)

\* C17: for both stream classes a push after end changes nothing, and the
\* iteration yields exactly the events pushed before the first end, each once
\* and in the order of the pushes, then stops: what was yielded followed by
\* what is still queued is always that sequence, and a stopped iteration has
\* yielded all of it.
C17_IterationYieldsPushedBeforeEnd ==
    LET want == PushedBeforeFirstEnd(callLog)
    IN  /\ taken \o Queued(es.queue) = want
        /\ iterStopped => taken = want /\ es.queue = <<>>

\* two different events were yielded in order, a push came after the end, and
\* the iteration has stopped
C17_Witness ==
    /\ iterStopped
    /\ Len(taken) = 2
    /\ taken[1] # taken[2]
    /\ \E i \in 1..Len(callLog) :
          callLog[i].op = "push" /\ FirstEnd(callLog) \in 1..(i - 1)

\* the calls of a history that supply a terminal value: an end with a value,
\* and on an AssistantMessageEventStream a done / error push made before the
\* first end
Suppliers(class, cs) ==
    {i \in 1..Len(cs) :
        /\ cs[i].value # None
        /\ \/ cs[i].op = "end"
           \/ /\ class = "AssistantMessageEventStream"
              /\ cs[i].op = "push"
              /\ cs[i].type \in {"done", "error"}
              /\ FirstEnd(cs) = 0 \/ i < FirstEnd(cs)}

\* the value of the first call that supplied one, None when none did
FirstSupplied(class, cs) ==
    LET sup == Suppliers(class, cs)
    IN  IF sup = {} THEN None
        ELSE cs[CHOOSE i \in sup : \A j \in sup : i <= j].value

SentinelsEnqueued ==
    Cardinality({i \in 1..Len(es.queue) : es.queue[i] = EndOfStream})
        + (IF iterStopped THEN 1 ELSE 0)

\* C18: for both stream classes the first call that supplies a terminal value
\* wins: once a value was supplied, result() holds the first one supplied
\* whatever end or done / error push follows, and at most one end-of-stream
\* sentinel is ever enqueued.
C18_FirstCallWins ==
    LET first == FirstSupplied(es.class, callLog)
    IN  /\ first # None => es.result.set /\ es.result.value = first
        /\ SentinelsEnqueued <= 1

\* the same for the AssistantMessageEventStream alone
FirstCallWinsOnAssistantStream ==
    es.class = "AssistantMessageEventStream" => C18_FirstCallWins

\* the stream was ended and no call has supplied a terminal value
EndedBare == es.done /\ FirstSupplied(es.class, callLog) = None

Waiting(w) == Len(waiters) >= w /\ waiters[w].state = "waiting"

\* C19: result() fails when the stream ended with no terminal value: a
\* result() call that waits on a stream ended bare, whenever it was issued,
\* eventually completes instead of waiting forever.
C19_ResultFailsAfterBareEnd ==
    \A w \in 1..MaxWaiters :
        [](EndedBare /\ Waiting(w) => <>(~Waiting(w)))

\* the safety half: a result() call that has completed on a stream ended bare
\* has raised
CompletedOnBareEndRaised ==
    EndedBare =>
        \A w \in 1..Len(waiters) : waiters[w].state \in {"waiting", "raised"}

\* a result() call issued after a bare end is waiting
WaitsOnBareEnd ==
    /\ EndedBare
    /\ Waiting(1)
    /\ waiters[1].afterEnd

\* the value of the call that ended the stream, None when there is none
EndedWith(cs) == IF FirstEnd(cs) = 0 THEN None ELSE cs[FirstEnd(cs)].value

TerminalEventsTaken ==
    {i \in 1..Len(taken) : taken[i].type \in {"done", "error"}}

\* the terminal value is stored by the time the consumer can see the end:
\* result() would not wait
TerminalVisibleAtStop ==
    /\ iterStopped /\ EndedWith(callLog) # None => es.result.set
    /\ es.class = "AssistantMessageEventStream" /\ TerminalEventsTaken # {}
          => es.result.set

\* C20: the terminal value is visible to result() before the end of the
\* iteration can be observed: whenever the consumer has seen the iteration
\* stop on a stream ended with a terminal value, or has dequeued a done /
\* error event, result() returns the stream's terminal value (the first one
\* supplied) without waiting.
C20_TerminalVisibleBeforeSentinel ==
    LET first == FirstSupplied(es.class, callLog)
    IN  /\ TerminalVisibleAtStop
        /\ iterStopped /\ EndedWith(callLog) # None => es.result.value = first
        /\ es.class = "AssistantMessageEventStream" /\ TerminalEventsTaken # {}
              => es.result.value = first

\* the consumer saw the iteration stop on a stream ended with a value
StoppedOnEndWithValue ==
    /\ iterStopped
    /\ EndedWith(callLog) # None
    /\ Len(taken) > 0

\* -------------------------------------------------------- a provider run
TerminalPushes(cs) ==
    {i \in 1..Len(cs) : cs[i].op = "push" /\ cs[i].type \in {"done", "error"}}

\* the stream has ended with one terminal event, an error whose message has
\* stop_reason aborted, and result() is that message
EndedAborted ==
    /\ es.done
    /\ \E i \in TerminalPushes(callLog) :
          /\ TerminalPushes(callLog) = {i}
          /\ callLog[i].type = "error"
          /\ callLog[i].value = Aborted
    /\ es.result.set
    /\ es.result.value = Aborted

\* once the signal is set on a stream in progress the stream does not end in
\* any other way
AbortNeverEndsInDone == signalSet /\ es.done => EndedAborted

\* C14: when the signal is set while a provider stream is in progress, the
\* stream eventually ends with exactly one terminal event, an error with
\* stop_reason aborted and never a done, and result() is that message; this
\* does not depend on the server sending a further line.
C14_AbortEndsTheStream ==
    /\ [](AbortNeverEndsInDone)
    /\ (signalSet /\ providerPc \in {"reading", "after"}) ~> EndedAborted

\* the signal is set while run() waits for a line the server has not sent
AbortedWhileWaitingForALine ==
    /\ signalSet
    /\ providerPc = "reading"
    /\ wire = <<>>
    /\ ~wireClosed

\* ---------------------------------------------------- transform_messages
\* every tool call of every assistant message of ms is followed, before the
\* next user message or the end of ms, by a tool-result with its id
Paired(ms) ==
    \A i \in 1..Len(ms) :
        ms[i].role = "assistant" =>
            \A c \in 1..Len(ms[i].content) :
                ms[i].content[c].type = "toolCall" =>
                    \E j \in (i + 1)..Len(ms) :
                        /\ ms[j].role = "toolResult"
                        /\ ms[j].id = ms[i].content[c].id
                        /\ \A k \in (i + 1)..(j - 1) : ms[k].role # "user"

PairedWhenClosedByUser ==
    /\ tPc # "building"
    /\ tMessages # <<>>
    /\ tMessages[Len(tMessages)].role = "user"
    => Paired(tOnce)

Idempotent(normalize) == \A id \in Ids : normalize[normalize[id]] = normalize[id]

ResultsIn(ms) ==
    SelectSeq(ms, LAMBDA x : x.role = "toolResult" /\ x.text # NoResultText)

AssistantsIn(ms) ==
    SelectSeq(ms, LAMBDA x : x.role = "assistant"
                             /\ x.stop \notin {"error", "aborted"})

\* the assistant message a tool-result refers to: the closest one before it
\* that has a call with its id, 0 when there is none
Owner(ms, j) ==
    LET before == {i \in 1..(j - 1) :
                      /\ ms[i].role = "assistant"
                      /\ \E c \in 1..Len(ms[i].content) :
                            /\ ms[i].content[c].type = "toolCall"
                            /\ ms[i].content[c].id = ms[j].id}
    IN  IF before = {} THEN 0
        ELSE CHOOSE i \in before : \A k \in before : k <= i

\* which of the calls of msg has the id
CallRank(msg, id) ==
    LET calls == ToolCallsOf(msg)
    IN  CHOOSE k \in 1..Len(calls) :
            /\ calls[k].id = id
            /\ \A n \in 1..(k - 1) : calls[n].id # id

\* the tool-result at j of the input and the call it referred to still
\* carry the same id in the output
StillPaired(ms, out, j) ==
    LET i == Owner(ms, j)
        r == Len(ResultsIn(SubSeq(ms, 1, j)))
        q == Len(AssistantsIn(SubSeq(ms, 1, i)))
        k == CallRank(ms[i], ms[j].id)
    IN  ResultsIn(out)[r].id = ToolCallsOf(AssistantsIn(out)[q])[k].id

RefersToKeptCall(ms, j) ==
    /\ ms[j].role = "toolResult"
    /\ Owner(ms, j) # 0
    /\ ms[Owner(ms, j)].stop \notin {"error", "aborted"}

ParentsAreEarlier ==
    \A i \in 1..Len(sEntries) :
        \/ sEntries[i].parentId = None
        \/ \E j \in 1..(i - 1) : sEntries[j].id = sEntries[i].parentId

Roots == {i \in 1..Len(sEntries) : sEntries[i].parentId = None}

\* C24: after any sequence of SessionManager operations every entry's
\* parentId is absent or the id of an earlier entry of the same list (so the
\* parent relation has no cycle), and the entries form a single rooted tree:
\* a list that is not empty has exactly one entry without a parent.
C24_EntriesFormATree ==
    /\ ParentsAreEarlier
    /\ sEntries # <<>> => Cardinality(Roots) = 1

\* a branched session holds an entry whose parent was left behind
ParentLeftBehind ==
    /\ sBefore # NoSnapshot
    /\ ~ParentsAreEarlier

AppendOps == {"append_message", "append_compaction", "append_label_change"}

\* C25: every append operation creates an entry whose parentId is the leaf
\* id held before the call (None on an empty session), afterwards the leaf id
\* is the id of the new entry, the entry list has grown by exactly that entry
\* and no existing entry is modified or removed.
C25_AppendChainsOffTheLeaf ==
    [][append_message \/ append_compaction \/ append_label_change =>
          /\ Len(sEntries') = Len(sEntries) + 1
          /\ SubSeq(sEntries', 1, Len(sEntries)) = sEntries
          /\ sEntries'[Len(sEntries')].parentId = sLeaf
          /\ sLeaf' = sEntries'[Len(sEntries')].id
          /\ \A i \in 1..Len(sEntries) : sEntries[i].id # sLeaf'
          /\ sEntries = <<>> => sEntries'[1].parentId = None]_vars

\* an append after a branch: the new entry hangs off an entry that is not
\* the one before it
C25_Witness ==
    /\ sLast.op \in AppendOps
    /\ Len(sEntries) = 3
    /\ sEntries[3].parentId = sEntries[1].id
    /\ sLeaf = sEntries[3].id

BranchRefused == sLast = Called("branch", None, TRUE) /\ sEntries # <<>>

\* a sequence of entries in which each one is the parent of the next
ParentChain(p) == \A k \in 2..Len(p) : p[k].parentId = p[k - 1].id

\* the parent-pointer path to the entry: it ends with the entry, runs along
\* the parent pointers, and starts at an entry without a parent (at the
\* root, wherever every parent is in the list)
IsPathTo(p, entries, entry) ==
    /\ p # <<>>
    /\ p[Len(p)] = entry
    /\ ParentChain(p)
    /\ \A k \in 1..Len(p) : \E i \in 1..Len(entries) : entries[i] = p[k]
    /\ \/ p[1].parentId = None
       \/ \A i \in 1..Len(entries) : entries[i].id # p[1].parentId
    /\ (\A i \in 1..Len(entries) :
            \/ entries[i].parentId = None
            \/ \E j \in 1..(i - 1) : entries[j].id = entries[i].parentId)
           => p[1].parentId = None

HasCompaction(p) == \E k \in 1..Len(p) : p[k].type = "compaction"

\* the ids of the messages, in order
IdsOf(messages) == [k \in 1..Len(messages) |-> messages[k].id]

\* the ids of the path entries that carry a message, in path order
MessageIdsOn(p) ==
    IdsOf(SelectSeq(p, LAMBDA e : e.type \in {"message", "branch_summary"}))

\* C27: for every entry taken as the leaf, get_branch is the parent-pointer
\* path from the root to it, in root-to-leaf order, so no entry of a sibling
\* branch is in it, and without a compaction on the path the messages of
\* build_session_context are those of the path entries, in the same order
C27_ContextFollowsOnePath ==
    LET entries == sEntries
    IN  \A i \in 1..Len(entries) :
           LET p == get_branch(entries, sLeaf, entries[i].id)
           IN  /\ IsPathTo(p, entries, entries[i])
               /\ ~HasCompaction(p) =>
                      IdsOf(build_session_context(entries, entries[i].id))
                          = MessageIdsOn(p)

\* m1, m2, then branch(m1) and m3: the branch of m3 is m1, m3, without the
\* sibling m2, and the branch of m2 is m1, m2
C27_Witness ==
    /\ Len(sEntries) = 3
    /\ \A i \in 1..3 : sEntries[i].type = "message"
    /\ sEntries[1].parentId = None
    /\ sEntries[2].parentId = sEntries[1].id
    /\ sEntries[3].parentId = sEntries[1].id
    /\ get_branch(sEntries, sLeaf, None) = <<sEntries[1], sEntries[3]>>
    /\ get_branch(sEntries, sLeaf, sEntries[2].id)
           = <<sEntries[1], sEntries[2]>>
    /\ IdsOf(build_session_context(sEntries, sLeaf))
           = <<sEntries[1].id, sEntries[3].id>>

\* the position of the latest compaction of a path that has one
LatestCompactionAt(p) ==
    CHOOSE c \in 1..Len(p) :
        /\ p[c].type = "compaction"
        /\ \A k \in (c + 1)..Len(p) : p[k].type # "compaction"

\* the path entries whose messages follow the summary marker: those from the
\* first kept entry up to the compaction, and those after the compaction
Contributing(p) ==
    LET c == LatestCompactionAt(p)
        kept(k) == /\ k < c
                   /\ \E f \in 1..k : p[f].id = p[c].firstKept
    IN  SelectSeq(p, LAMBDA e :
            \E k \in 1..Len(p) : p[k] = e /\ (kept(k) \/ k > c))

Markers(messages) ==
    SelectSeq(messages, LAMBDA msg : msg.role = "compactionSummary")

\* C28: with a compaction on the path to the leaf, the messages are one
\* summary marker, that of the latest compaction, then the messages of the
\* path entries from its first kept entry up to the compaction, then those
\* of the entries after it; nothing else contributes
C28_ContextAfterCompaction ==
    LET entries == sEntries
    IN  \A i \in 1..Len(entries) :
           LET p == get_branch(entries, sLeaf, entries[i].id)
               messages == build_session_context(entries, entries[i].id)
           IN  HasCompaction(p) =>
                  /\ messages # <<>>
                  /\ Markers(messages) = <<Head(messages)>>
                  /\ Head(messages).id = p[LatestCompactionAt(p)].id
                  /\ IdsOf(Tail(messages)) = MessageIdsOn(Contributing(p))

\* m1, m2 and a compaction that keeps m2: the context of the compaction is
\* the marker and m2, without m1
C28_Witness ==
    /\ Len(sEntries) = 3
    /\ sEntries[1].type = "message"
    /\ sEntries[2].type = "message"
    /\ sEntries[3].type = "compaction"
    /\ sEntries[3].firstKept = sEntries[2].id
    /\ sLeaf = sEntries[3].id
    /\ get_branch(sEntries, sLeaf, None) = sEntries
    /\ IdsOf(build_session_context(sEntries, sLeaf))
           = <<sEntries[3].id, sEntries[2].id>>

\* a compaction that keeps m1, with a message after it: marker, m1, m2
KeptAndLaterMessages ==
    /\ Len(sEntries) = 3
    /\ sEntries[2].type = "compaction"
    /\ sEntries[2].firstKept = sEntries[1].id
    /\ get_branch(sEntries, sLeaf, None) = sEntries
    /\ IdsOf(build_session_context(sEntries, sLeaf))
           = <<sEntries[2].id, sEntries[1].id, sEntries[3].id>>

\* two compactions on the path: the marker is that of the later one
LaterCompactionWins ==
    /\ Len(sEntries) = 3
    /\ sEntries[2].type = "compaction"
    /\ sEntries[3].type = "compaction"
    /\ get_branch(sEntries, sLeaf, None) = sEntries
    /\ Head(build_session_context(sEntries, sLeaf)).id = sEntries[3].id

\* every id a label entry can name
TargetIds == 1..MaxIds

\* the label of a target by replay of the label entries in entry order: that
\* of the last label entry for it, none without one or when that one clears
ReplayedLabel(entries, target) ==
    LET at == {i \in 1..Len(entries) :
                  entries[i].type = "label" /\ entries[i].targetId = target}
    IN  IF at = {} THEN NoLabel
        ELSE entries[CHOOSE i \in at : \A j \in at : j <= i].label

\* C29: the label map kept by the manager is, for every target, the replay
\* of the label entries of the entry list (a later entry overwrites, an
\* entry without a label clears), and it is the map rebuilt on load
C29_LabelMapIsTheReplay ==
    LET entries == sEntries
        labels == sLabels
    IN  /\ \A target \in TargetIds :
              DictGet(labels, target) = ReplayedLabel(entries, target)
        /\ \A k \in 1..Len(labels) : labels[k].value # NoLabel
        /\ \A k, l \in 1..Len(labels) :
              labels[k].key = labels[l].key => k = l
        /\ labels = ReplayLabels(entries)

\* a label set and then cleared by a later label entry, kept incrementally
C29_Witness ==
    /\ sLast.op = "append_label_change"
    /\ Len(sEntries) = 3
    /\ sEntries[2].type = "label"
    /\ sEntries[2].label # NoLabel
    /\ sEntries[3].type = "label"
    /\ sEntries[3].targetId = sEntries[2].targetId
    /\ sEntries[3].label = NoLabel
    /\ sLabels = <<>>

\* a label overwritten by a later label entry
LabelOverwritten ==
    /\ sLast.op = "append_label_change"
    /\ Len(sEntries) = 3
    /\ sEntries[2].type = "label"
    /\ sEntries[2].label = "x"
    /\ sEntries[3].type = "label"
    /\ sEntries[3].targetId = sEntries[2].targetId
    /\ sEntries[3].label = "y"
    /\ DictGet(sLabels, sEntries[3].targetId) = "y"

\* the call before this state was a create_branched_session that succeeded
Branched == sBefore # NoSnapshot

\* the ids of the entries on the path handed to create_branched_session
OnPath == {sBefore.path[k].id : k \in 1..Len(sBefore.path)}

\* the ids of the path entries the branched session takes along: all but
\* the label entries (line 1090)
TakenAlong ==
    {sBefore.path[k].id :
        k \in {n \in 1..Len(sBefore.path) : sBefore.path[n].type # "label"}}

LabelledBefore(ids) == {id \in ids : DictGet(sBefore.labels, id) # NoLabel}

\* C30 as stated: after create_branched_session every entry of the path has
\* the label it had before, every other entry has none, and there is one
\* label entry per labelled path entry
C30_LabelsFollowThePath ==
    Branched =>
        /\ \A id \in TargetIds :
              DictGet(sLabels, id) =
                  IF id \in OnPath THEN DictGet(sBefore.labels, id)
                  ELSE NoLabel
        /\ CountOf(sEntries, "label") = Cardinality(LabelledBefore(OnPath))

\* C30 as the session behaves: after create_branched_session every path
\* entry that is not a label entry has the label it had before, every other
\* id has none (the label entries of the path are left out, and a label one
\* of them had goes with them), and the label entries of the new session
\* are one per labelled entry taken along, each with that entry's label
C30_LabelsFollowTheEntriesTakenAlong ==
    Branched =>
        /\ \A id \in TargetIds :
              DictGet(sLabels, id) =
                  IF id \in TakenAlong THEN DictGet(sBefore.labels, id)
                  ELSE NoLabel
        /\ CountOf(sEntries, "label") = Cardinality(LabelledBefore(TakenAlong))
        /\ \A i \in 1..Len(sEntries) :
              sEntries[i].type = "label" =>
                  /\ sEntries[i].targetId \in LabelledBefore(TakenAlong)
                  /\ sEntries[i].label =
                         DictGet(sBefore.labels, sEntries[i].targetId)
                  /\ \A j \in 1..Len(sEntries) :
                        /\ sEntries[j].type = "label"
                        /\ sEntries[j].targetId = sEntries[i].targetId
                        => j = i

\* a labelled message taken along: its label is kept, by one label entry
C30_Witness ==
    /\ Branched
    /\ Len(sEntries) = 2
    /\ sEntries[1].type = "message"
    /\ sEntries[2].type = "label"
    /\ sEntries[2].targetId = sEntries[1].id
    /\ DictGet(sLabels, sEntries[1].id) = "x"
    /\ DictGet(sBefore.labels, sEntries[1].id) = "x"

\* a labelled entry off the path: its label is gone
LabelOffThePathDropped ==
    /\ Branched
    /\ \E id \in TargetIds \ OnPath : DictGet(sBefore.labels, id) # NoLabel
    /\ sLabels = <<>>
    /\ sEntries # <<>>

\* a labelled label entry on the path: it is left out and its label with it
LabelOfALabelEntryDropped ==
    /\ Branched
    /\ LabelledBefore(OnPath \ TakenAlong) # {}

WithoutLabels(p) == SelectSeq(p, LAMBDA e : e.type # "label")

\* the entry create_branched_session was called with
BranchedLeaf == sBefore.path[Len(sBefore.path)]

\* C37: after create_branched_session(leaf_id), with a leaf that is not a
\* label entry, walking the parent pointers from leaf_id yields the
\* entries that were on the path before the call, label entries aside, in
\* the same order
C37_BranchedSessionKeepsThePath ==
    LET entries == sEntries
    IN  (Branched /\ BranchedLeaf.type # "label") =>
            WithoutLabels(get_branch(entries, sLeaf, BranchedLeaf.id))
                = WithoutLabels(sBefore.path)

\* m1, a label change, m2, then create_branched_session(m2): the path of
\* m2 in the new session is m2 alone, its parent being the label entry
\* that was left out
PathCutAtLabelEntry ==
    /\ Branched
    /\ Len(sBefore.path) = 3
    /\ sBefore.path[1].type = "message"
    /\ sBefore.path[2].type = "label"
    /\ sBefore.path[3].type = "message"
    /\ get_branch(sEntries, sLeaf, BranchedLeaf.id) = <<BranchedLeaf>>

\* without a label entry on the path the path is kept
PathKeptWithoutLabelEntries ==
    /\ Branched
    /\ Len(sBefore.path) = 3
    /\ WithoutLabels(sBefore.path) = sBefore.path
    /\ get_branch(sEntries, sLeaf, BranchedLeaf.id) = sBefore.path

\* the entries a SessionManager has after opening the file
EntriesRead(file) ==
    LET dicts == SelectSeq(migrate_session_entries(
                               load_entries_from_file(file)).entries,
                           LAMBDA d : ~IsSession(d))
    IN  [i \in 1..Len(dicts) |-> EntryFromDict(dicts[i])]

\* the header it has
HeaderRead(file) ==
    HeaderFromDict(HeaderIn(migrate_session_entries(
                                load_entries_from_file(file)).entries))

\* C31: the file the manager has written, opened by a new SessionManager
\* and written again, has the same lines, and the new manager has the same
\* entries (ids, parentIds, typed fields) and the same labels; opening
\* reports no migration
C31_SaveLoadSaveIsTheSame ==
    LET file == sFile
    IN  file.exists =>
            /\ load_entries_from_file(file) = file.lines
            /\ ~migrate_session_entries(file.lines).changed
            /\ HeaderAccepted(file.lines[1])
            /\ EntriesRead(file) = sEntries
            /\ \A target \in TargetIds :
                  DictGet(ReplayLabels(EntriesRead(file)), target)
                      = DictGet(sLabels, target)
            /\ LinesOf(HeaderRead(file), EntriesRead(file)) = file.lines

\* a reload of a file of three entries, with a label entry that clears a
\* label: entries, labels and file are what they were
C31_Witness ==
    /\ sLast = Called("set_session_file", None, FALSE)
    /\ sFile.exists
    /\ Len(sFile.lines) = 4
    /\ Len(sEntries) = 3
    /\ sEntries[2].type = "label"
    /\ sEntries[2].label # NoLabel
    /\ sEntries[3].type = "label"
    /\ sEntries[3].label = NoLabel
    /\ sEntries[3].targetId = sEntries[2].targetId
    /\ "label" \notin DOMAIN sFile.lines[4]
    /\ sLoaded = sFile.lines

\* a reload of the file of a branched session
BranchedSessionReloaded ==
    /\ sLast = Called("set_session_file", None, FALSE)
    /\ sHeader.parentSession # NoParentSession
    /\ Len(sEntries) = 3
    /\ sLoaded = sFile.lines

NonHeaders(entries) == SelectSeq(entries, LAMBDA d : ~IsSession(d))

\* each entry's parentId is the id of the one before, None for the first,
\* and no two entries share an id
FlatChain(entries) ==
    /\ \A k \in 1..Len(entries) :
          /\ "id" \in DOMAIN entries[k]
          /\ "parentId" \in DOMAIN entries[k]
          /\ entries[k].parentId =
                 IF k = 1 THEN None ELSE entries[k - 1].id
    /\ \A k, l \in 1..Len(entries) :
          entries[k].id = entries[l].id => k = l

\* C32: migrate_session_entries gives the header of an entry list the
\* current version, turns the entries of a version-1 list into a flat
\* chain of distinct ids, and applied to its own result it reports no
\* change and leaves the list as it is
C32_MigrationChainsAndSettles ==
    LET loaded == sLoaded
        once == migrate_session_entries(loaded)
        twice == migrate_session_entries(once.entries)
    IN  loaded # <<>> =>
            /\ Len(once.entries) = Len(loaded)
            /\ HeaderIn(once.entries).version = CURRENT_SESSION_VERSION
            /\ VersionOf(loaded) < 2 => FlatChain(NonHeaders(once.entries))
            /\ once.changed = (VersionOf(loaded) < CURRENT_SESSION_VERSION)
            /\ ~twice.changed
            /\ twice.entries = once.entries

\* a version-1 file of a header and two entries without ids has been
\* opened: the entries are chained and the file holds the migrated list
C32_Witness ==
    /\ sLast = Called("set_session_file", None, FALSE)
    /\ Len(sLoaded) = 3
    /\ sLoaded[1] = [type |-> "session", cwd |-> "old"]
    /\ sLoaded[2] = [type |-> "message"]
    /\ sLoaded[3] = [type |-> "message"]
    /\ Len(sEntries) = 2
    /\ sEntries[1].parentId = None
    /\ sEntries[2].parentId = sEntries[1].id
    /\ sEntries[1].id # sEntries[2].id
    /\ sHeader.version = CURRENT_SESSION_VERSION
    /\ sFile.lines = migrate_session_entries(sLoaded).entries

\* a version-2 list: the ids stay, the version is raised
VersionTwoKeepsIds ==
    /\ sLast = Called("set_session_file", None, FALSE)
    /\ Len(sLoaded) = 3
    /\ VersionOf(sLoaded) = 2
    /\ NonHeaders(migrate_session_entries(sLoaded).entries)
           = NonHeaders(sLoaded)
    /\ Len(sEntries) = 2
    /\ sHeader.version = CURRENT_SESSION_VERSION

\* the lines that are entries: JSON objects with a type
Parseable(lines) == SelectSeq(lines, LAMBDA l : "type" \in DOMAIN l)

HasHeader(lines) ==
    \E i \in 1..Len(lines) :
        "type" \in DOMAIN lines[i] /\ lines[i].type = "session"

TypesOf(entries) == [i \in 1..Len(entries) |-> entries[i].type]

\* opening a file without a header: no failure, an empty session, and a file
\* of one line, the new header
RecoversHeaderlessFile ==
    [][(set_session_file /\ sFile.exists /\ ~HasHeader(sFile.lines)) =>
          /\ ~sLast'.raised
          /\ sEntries' = <<>>
          /\ sLabels' = <<>>
          /\ sLeaf' = None
          /\ sFile'.exists
          /\ sFile'.lines = <<HeaderToDict(NewHeader(NoParentSession))>>
          /\ sHeader' = NewHeader(NoParentSession)]_vars

\* C33: opening a file that is there never fails; without a header the
\* manager starts an empty session and the file then holds one line, a new
\* header; with a header the lines that cannot be parsed are skipped and
\* every other entry is loaded, in file order
C33_OpenRecoversOrLoads ==
    [][(set_session_file /\ sFile.exists) =>
          /\ ~sLast'.raised
          /\ IF HasHeader(sFile.lines)
             THEN TypesOf(sEntries')
                      = TypesOf(SelectSeq(Parseable(sFile.lines),
                                          LAMBDA l : l.type # "session"))
             ELSE /\ sEntries' = <<>>
                  /\ sFile'.lines
                         = <<HeaderToDict(NewHeader(NoParentSession))>>]_vars

\* a header line that lacks a field SessionHeader needs: the open raised
\* and no entry was loaded
OpenRaisedOnHeader ==
    /\ sLast = Called("set_session_file", None, TRUE)
    /\ sLoaded # <<>>
    /\ \E i \in 1..Len(sLoaded) : sLoaded[i].type = "message"
    /\ sEntries = <<>>

\* a file of lines that are no entries has been replaced by a new header
HeaderlessFileRecovered ==
    /\ sLast = Called("set_session_file", None, FALSE)
    /\ sLoaded = <<>>
    /\ sFile = FileOf(<<HeaderToDict(sHeader)>>)
    /\ sFlushed

\* a line that is no entry skipped, the entries around it loaded
UnreadableLineSkipped ==
    /\ sLast = Called("set_session_file", None, FALSE)
    /\ Len(sFile.lines) = 3
    /\ "type" \notin DOMAIN sFile.lines[2]
    /\ Len(sEntries) = 1

\* a step of the manager that writes the session file
WritesFile == sFile' # sFile /\ sLast'.op # "open"

AppendStep == append_message \/ append_label_change

\* what each write does: the first append of a new session, a branched
\* session and the recovery of a file without header write the
\* serialization of the entries in memory; a later append adds one line,
\* that of the new entry, and leaves the earlier lines as they are
WritesAsAppended ==
    /\ (AppendStep /\ ~sFlushed) =>
           sFile'.lines = LinesOf(sHeader', sEntries')
    /\ (AppendStep /\ sFlushed) =>
           /\ Len(sFile'.lines) = Len(sFile.lines) + 1
           /\ SubSeq(sFile'.lines, 1, Len(sFile.lines)) = sFile.lines
           /\ sFile'.lines[Len(sFile'.lines)]
                  = ToDict(sEntries'[Len(sEntries')])
    /\ (create_branched_session /\ ~sLast'.raised) =>
           sFile'.lines = LinesOf(sHeader', sEntries')
    /\ (set_session_file /\ sFile.exists /\ ~HasHeader(sFile.lines)) =>
           sFile'.lines = LinesOf(sHeader', sEntries')

FirstAppendWritesAll ==
    /\ sLast.op = "append_message"
    /\ Len(sEntries) = 1
    /\ sHeader = NewHeader(NoParentSession)
    /\ sFile = FileOf(LinesOf(sHeader, sEntries))

\* ---------------------------------------------------------------- C34
ThinkingEnabled ==
    /\ opt.called
    /\ clamp_reasoning(opt.reasoning_level)
           \in DOMAIN Budgets(opt.custom_budgets)

TableBudget ==
    Get(Budgets(opt.custom_budgets), clamp_reasoning(opt.reasoning_level), 0)

\* C34: adjust_max_tokens_for_thinking returns max_tokens = min(base + table
\* budget, model max_tokens) and a budget between 0 and the table budget,
\* and whenever thinking is enabled it leaves at least 1024 tokens for
\* output: max_tokens - budget >= 1024.
C34_OutputKeepsItsMinimum ==
    ThinkingEnabled =>
        /\ opt.max_tokens
               = Min(opt.base_max_tokens + TableBudget, opt.model_max_tokens)
        /\ 0 <= opt.thinking_budget
        /\ opt.thinking_budget <= TableBudget
        /\ opt.max_tokens - opt.thinking_budget >= min_output_tokens

\* the call (8000, 17000, "high") has returned (17000, 16384): 616 tokens
\* are left for output
BudgetLeftUncut ==
    /\ ThinkingEnabled
    /\ opt.base_max_tokens = 8000
    /\ opt.model_max_tokens = 17000
    /\ opt.reasoning_level = "high"
    /\ opt.custom_budgets = "None"
    /\ opt.max_tokens = 17000
    /\ opt.thinking_budget = 16384

\* ---------------------------------------------------------------- C35
ToolCallBlocks == SelectSeq(parser.content, LAMBDA b : b.type = ToolCallType)

\* C35: the name of a streamed tool-call is committed by the first chunk
\* that carries a non-empty function name for it; later chunks of the same
\* tool-call with another non-empty name do not change the block's name:
\* output.content holds one tool-call block for each tool-call streamed,
\* in order, named by the first non-empty name sent for it.
C35_FirstNameWins ==
    /\ Len(ToolCallBlocks) = Len(parser.calls)
    /\ \A i \in 1..Len(ToolCallBlocks) :
           ToolCallBlocks[i].name = parser.calls[i].name

\* a tool-call was streamed in two deltas, the name "echo" in the second;
\* the content holds two tool-call blocks, the first without a name
NameArrivedLate ==
    /\ parser.done
    /\ Len(parser.calls) = 1
    /\ parser.calls[1] = [id |-> "t1", name |-> "echo", deltas |-> 2]
    /\ Len(ToolCallBlocks) = 2
    /\ ToolCallBlocks[1].name = ""
    /\ ToolCallBlocks[2].name = "echo"

\* ---------------------------------------------------------------- C39
\* the ids of the tool calls run r has started and not ended, by the events
\* its loop has pushed
StartedNotEnded(r) ==
    {runs[r].emitted[i].toolCallId :
        i \in {j \in 1..Len(runs[r].emitted) :
                 runs[r].emitted[j].type = "tool_execution_start"}}
    \ {runs[r].emitted[i].toolCallId :
        i \in {j \in 1..Len(runs[r].emitted) :
                 runs[r].emitted[j].type = "tool_execution_end"}}

ReachedAgentEnd(r) ==
    \E i \in 1..Len(runs[r].emitted) : runs[r].emitted[i].type = "agent_end"

ToolEventsOf(evs) ==
    SelectSeq(evs, LAMBDA e : e.type \in {"tool_execution_start",
                                          "tool_execution_end"})

Enqueued == {UserMessage(300 + k) : k \in 0..(enqueued - 1)}

\* polled and not yet injected: the loop holds them between the return of
\* the reader and the top of the next turn
Held == pendingMessages \o steeringAfterTools

EventsPushed == delivered \o queue

\* the ids a reader of the given kind has returned to the loop, in order
RECURSIVE ReturnedBy(_, _)
ReturnedBy(reader, i) ==
    IF i > Len(polls) THEN <<>>
    ELSE (IF polls[i].reader = reader THEN polls[i].returned ELSE <<>>)
         \o ReturnedBy(reader, i + 1)

InOrder(ms) == \A i, j \in 1..Len(ms) : i < j => ms[i].id < ms[j].id

\* the messages of ms that the reader of the given kind returned
FromQueue(reader, ms) ==
    SelectSeq(ms, LAMBDA m : Occurrences(m, ReturnedBy(reader, 1)) > 0)

\* C38: every message handed to steer or follow_up is in exactly one place:
\* its queue, or the run, where it has one message_start, one message_end
\* and one entry in the run's message list; while the loop waits for the
\* provider or a tool, and when it has ended, nothing polled is left
\* uninjected; the messages of one queue are injected in the order they
\* were enqueued.
C38_QueuedMessagesInjectedOnce ==
    /\ \A m \in Enqueued :
           /\ Occurrences(m, steeringQueue) + Occurrences(m, followUpQueue)
                  + Occurrences(m, Held) + Occurrences(m, newMessages) = 1
           /\ Occurrences(MessageEvent("message_start", m), EventsPushed)
                  = Occurrences(m, newMessages)
           /\ Occurrences(MessageEvent("message_end", m), EventsPushed)
                  = Occurrences(m, newMessages)
    /\ pc \in {"streaming", "tool_exec", "ended", "crashed"} => Held = <<>>
    /\ InOrder(FromQueue("steering", newMessages) \o steeringQueue)
    /\ InOrder(FromQueue("follow_up", newMessages) \o followUpQueue)

\* two steering messages were queued while the run was under way; the run
\* has ended with error, the first was injected before the failing request
\* and the second is still queued
C38_Witness ==
    /\ pc = "ended"
    /\ message.stop = "error"
    /\ Occurrences(UserMessage(300), newMessages) = 1
    /\ steeringQueue = <<UserMessage(301)>>
    /\ Len(polls) >= 2

\* both queues were polled in mode all and their messages injected in order
BothQueuesInjected ==
    /\ steeringMode = "all"
    /\ Len(FromQueue("steering", newMessages)) = 2
    /\ pc = "request"

FollowUpInjected ==
    /\ FromQueue("follow_up", newMessages) = <<UserMessage(300)>>
    /\ FromQueue("steering", newMessages) = <<UserMessage(301)>>
    /\ pc = "ended"

\* ---------------------------------------------------------------- C40
Steers(command) ==
    \/ command.type \in {"steer", "follow_up", "abort"}
    \/ command.type = "prompt" /\ command.streaming_behavior # "None"

====
